---- MODULE Spec2Model ----
(***************************************************************************)
(* Chart data pipeline of zeno_backend (processing/chart.py) over the      *)
(* catalogue queries of database/select.py.                                *)
(*                                                                         *)
(* One behaviour is one call chart_data(chart, project): Init draws the    *)
(* chart and the project, ChartDataCall is the dispatch and the prologue   *)
(* of the selected strategy (parameter type check, catalogue resolution),  *)
(* each *Step action is one execution of the innermost loop body, and      *)
(* Return is the json.dumps at the end of the strategy.                    *)
(*                                                                         *)
(* Further specifications over the same variables: SpecFail (the same call *)
(* over a store whose queries can raise), SpecString (the string filter of *)
(* database/select.py), SpecDatabase (class Database of                    *)
(* database/database.py), SpecRouter (the routes of routers/chart.py, one  *)
(* invocation at a time), SpecConcurrent (two invocations interleaved at   *)
(* their awaits), SpecSlices and SpecProjects (slices and projects of      *)
(* database/select.py called on their own).                                *)
(* Each specification leaves the variables of the other components at      *)
(* their idle values.                                                      *)
(***************************************************************************)
EXTENDS Integers, Sequences, FiniteSets, TLC

VARIABLES
    metrics_table,    \* rows of metrics JOIN project_metrics
    slices_table,     \* rows of the slices table
    chart,            \* argument chart
    project,          \* argument project
    filter_optional,  \* whether metric_map's filter parameter has a default
    pc,               \* "start" | "loop" | "done" | "raised"
    strategy,         \* strategy function chart_data dispatched to
    selected_metrics, \* selected_metrics, or <<selected_metric>>
    selected_x,       \* selected_slices, or heatmap's selected_x
    selected_y,       \* heatmap's selected_y
    selected_models,  \* selected_models
    idx,              \* loop positions [m, s, k] of the nested for loops
    elements,         \* elements
    calls,            \* calls of metric_map so far, with their arguments
    queries,          \* store queries made so far
    returned,         \* <<>> or <<payload>>
    raised,           \* "" or the exception that left the call
    store_failed,     \* a store query of this call raised
    \* database/select.py: filered_short_string_column_values
    req,              \* argument req, a StringFilterRequest
    column_values,    \* values of the column req.column in the project table
    string_pc,        \* "start" | "done"
    returned_strings, \* rows the query returned
    short_ret,        \* the list the function returns
    \* database/database.py: one Database object and the server's connections
    db,               \* [conn, cur, open, made, method, before, trace, raised]
    \* routers/chart.py: the chart routes over the charts and chart_config tables
    charts_table,     \* chart id -> <<>> or <<row>>, row.data is the cached payload
    next_chart_id,    \* id the next inserted chart gets
    chart_configs,    \* <<project_uuid, chart_id>> -> number of config rows
    grants,           \* projects the requesting user may read and may edit
    requests,         \* slot -> the handler invocation it holds
    \* database/select.py: one call of slices and one call of projects
    slices_call,      \* [project, ids, pc, queries, ret]
    projects_call     \* [user, tables, pc, own, shared, org, ret]

ChartVars == <<metrics_table, slices_table, chart, project, filter_optional, pc,
               strategy, selected_metrics, selected_x, selected_y, selected_models,
               idx, elements, calls, queries, returned, raised, store_failed>>

StringVars == <<req, column_values, string_pc, returned_strings, short_ret>>

\* the variables of the other components
RouterVars == <<charts_table, next_chart_id, chart_configs, grants, requests>>

SelectVars == <<slices_call, projects_call>>

NotChart == <<StringVars, db, RouterVars, SelectVars>>
NotString == <<ChartVars, db, RouterVars, SelectVars>>
NotDatabase == <<ChartVars, StringVars, RouterVars, SelectVars>>
NotRouter == <<ChartVars, StringVars, db, SelectVars>>
NotSlices == <<ChartVars, StringVars, db, RouterVars, projects_call>>
NotProjects == <<ChartVars, StringVars, db, RouterVars, slices_call>>

vars == <<ChartVars, NotChart>>

-----------------------------------------------------------------------------
(* Bounds of the explored inputs *)

MaxDeclared == 2
MaxModels == 2

ModelNames == <<"m1", "m2", "m3", "m4">>
Projects == {"p", "q"}
SliceIds == {-1, 1, 2, 3}
MetricIds == {-1, 1, 2, 3}

SeqsUpTo(S, n) == UNION {[1..k -> S] : k \in 0..n}

Range(s) == {s[i] : i \in 1..Len(s)}

InSeq(x, s) == \E i \in 1..Len(s) : s[i] = x

-----------------------------------------------------------------------------
(* Enumerations of classes/chart.py and classes/filter.py *)

ChartTypes == {"BAR", "LINE", "TABLE", "BEESWARM", "RADAR", "HEATMAP", "OTHER"}
SlicesOrModels == {"SLICES", "MODELS"}
SlicesMetricsOrModels == {"SLICES", "MODELS", "METRICS"}
Join == {"OMITTED", "AND", "OR"}

Metric(id, name) == [id |-> id, name |-> name]

CountMetric == Metric(-1, "count")

FilterPredicateGroup(predicates, join) == [predicates |-> predicates, join |-> join]

Slice(id, slice_name, filter_predicates) ==
    [kind |-> "slice", id |-> id, slice_name |-> slice_name,
     filter_predicates |-> filter_predicates]

AllInstances == Slice(-1, "All instances", FilterPredicateGroup(<<>>, "OMITTED"))

\* a heatmap axis value that is no Slice (a plain str or int of x_values)
Raw(v) == [kind |-> "raw", value |-> v]

GroupMetric(metric, size) == [metric |-> metric, size |-> size]

-----------------------------------------------------------------------------
(* The store: catalogue tables and the project data table *)

\* metrics INNER JOIN project_metrics, one row per (metric, project) link
MetricRows ==
    << [id |-> 2, name |-> "f1", project_uuid |-> "p"],
       [id |-> 1, name |-> "accuracy", project_uuid |-> "p"],
       [id |-> 3, name |-> "bleu", project_uuid |-> "q"] >>

Leaf(column, operation, value, join) ==
    [column |-> column, operation |-> operation, value |-> value, join |-> join]

\* slices table; filter is the stored JSON's "predicates" list. Slices 1 and 2
\* of project p select disjoint rows.
SliceRows ==
    << [id |-> 2, name |-> "high", folder_id |-> 0, project_uuid |-> "p",
        filter |-> <<Leaf("score", ">=", 2, "OMITTED")>>],
       [id |-> 1, name |-> "low", folder_id |-> 0, project_uuid |-> "p",
        filter |-> <<Leaf("score", "<", 2, "OMITTED")>>],
       [id |-> 3, name |-> "odd", folder_id |-> 0, project_uuid |-> "q",
        filter |-> <<Leaf("score", "<", 2, "OMITTED"),
                     Leaf("score", ">=", 3, "OR")>>] >>

\* rows of the project's data table: a score column and, per row, the models
\* whose output is right
DataRows(p) ==
    IF p = "p"
    THEN << [score |-> 1, right |-> {"m1"}],
            [score |-> 2, right |-> {"m1", "m2"}],
            [score |-> 3, right |-> {"m2", "m3"}] >>
    ELSE << [score |-> 3, right |-> {"m1"}] >>

-----------------------------------------------------------------------------
(* database/select.py *)

RECURSIVE MapMetric(_)
MapMetric(rows) ==
    IF rows = <<>> THEN <<>>
    ELSE <<Metric(Head(rows).id, Head(rows).name)>> \o MapMetric(Tail(rows))

\* metrics(project): always one query
metrics(p) ==
    LET Mine(r) == r.project_uuid = p
    IN  MapMetric(SelectSeq(metrics_table, Mine))

RECURSIVE MapSlice(_)
MapSlice(rows) ==
    IF rows = <<>> THEN <<>>
    ELSE <<Slice(Head(rows).id, Head(rows).name,
                 FilterPredicateGroup(Head(rows).filter, "OMITTED"))>>
         \o MapSlice(Tail(rows))

\* slices(project, ids) without the condition on project_uuid
slices_any_project(p, ids) ==
    IF Len(ids) = 0 THEN <<>>
    ELSE LET Wanted(r) == InSeq(r.id, ids)
         IN  MapSlice(SelectSeq(slices_table, Wanted))

\* slices(project, ids) for a list ids: no query for the empty list, else
\* WHERE project_uuid = %s AND id = ANY(%s)
slices(p, ids) ==
    IF Len(ids) = 0 THEN <<>>
    ELSE LET Wanted(r) == r.project_uuid = p /\ InSeq(r.id, ids)
         IN  MapSlice(SelectSeq(slices_table, Wanted))

\* slices(project) with ids left at its default None:
\* WHERE project_uuid = %s
slices_all(p) ==
    LET OfProject(r) == r.project_uuid = p
    IN  MapSlice(SelectSeq(slices_table, OfProject))

\* the store queries slices(project, ids) issues
slices_queries(ids) == IF Len(ids) = 0 THEN <<>> ELSE <<"slices">>

-----------------------------------------------------------------------------
(* Metric evaluator (processing/metrics/map.py) and filter semantics *)

HoldsLeaf(row, leaf) ==
    CASE leaf.operation = "<" -> row.score < leaf.value
      [] leaf.operation = ">=" -> row.score >= leaf.value
      [] OTHER -> FALSE

IsGroup(node) == "predicates" \in DOMAIN node

RECURSIVE MatchesGroup(_, _), MatchesFrom(_, _, _, _)
\* MatchesGroup with the empty group matching no row
MatchesGroupEmptyNone(row, group) ==
    IF Len(group.predicates) = 0 THEN FALSE
    ELSE MatchesFrom(row, group.predicates, 1, TRUE)

\* an empty group matches every row; children are combined left to right,
\* each with the join it carries (OMITTED between two children acts as AND)
MatchesGroup(row, group) ==
    IF Len(group.predicates) = 0 THEN TRUE
    ELSE MatchesFrom(row, group.predicates, 1, TRUE)

MatchesFrom(row, preds, i, acc) ==
    IF i > Len(preds) THEN acc
    ELSE LET node == preds[i]
             here == IF IsGroup(node) THEN MatchesGroup(row, node)
                     ELSE HoldsLeaf(row, node)
             now  == IF i = 1 THEN here
                     ELSE IF node.join = "OR" THEN acc \/ here
                     ELSE acc /\ here
         IN  MatchesFrom(row, preds, i + 1, now)

RECURSIVE CountRight(_, _)
CountRight(rows, model) ==
    IF rows = <<>> THEN 0
    ELSE (IF model \in Head(rows).right THEN 1 ELSE 0) + CountRight(Tail(rows), model)

RECURSIVE SumScore(_)
SumScore(rows) ==
    IF rows = <<>> THEN 0 ELSE Head(rows).score + SumScore(Tail(rows))

\* evaluate(project, metric, model, filter) -> GroupMetric: metric is <<>> for
\* null and <<v>> for a value
metric_map(p, metric, model, filter) ==
    LET Sel(r) == MatchesGroup(r, filter)
        rows == SelectSeq(DataRows(p), Sel)
        size == Len(rows)
    IN  IF size = 0 \/ metric.id = -1 THEN GroupMetric(<<>>, size)
        ELSE IF metric.name = "accuracy"
             THEN GroupMetric(<<(100 * CountRight(rows, model)) \div size>>, size)
             ELSE GroupMetric(<<SumScore(rows)>>, size)

\* the group that matches every row, which a call without filter evaluates
NoFilter == FilterPredicateGroup(<<>>, "OMITTED")

-----------------------------------------------------------------------------
(* Chart parameters (classes/chart.py), with all declared lists up to n long *)

ModelLists(n) == {SubSeq(ModelNames, 1, k) : k \in 0..n}

IsIncreasing(s) == \A i \in 1..Len(s) - 1 : s[i] < s[i + 1]

MetricIdLists(n) == {s \in SeqsUpTo(MetricIds, n) : IsIncreasing(s)}

XCParameters(n) ==
    [kind : {"XCParameters"}, slices : SeqsUpTo(SliceIds, n), metric : MetricIds,
     models : ModelLists(MaxModels), x_channel : SlicesOrModels,
     color_channel : SlicesOrModels]

TableParameters(n) ==
    [kind : {"TableParameters"}, metrics : MetricIdLists(n),
     slices : SeqsUpTo(SliceIds, n), models : ModelLists(MaxModels),
     x_channel : SlicesMetricsOrModels, y_channel : SlicesOrModels]

BeeswarmParameters(n) ==
    [kind : {"BeeswarmParameters"}, metrics : MetricIdLists(n),
     slices : SeqsUpTo(SliceIds, n), models : ModelLists(MaxModels),
     y_channel : SlicesOrModels, color_channel : SlicesOrModels]

RadarParameters(n) ==
    [kind : {"RadarParameters"}, metrics : MetricIdLists(n),
     slices : SeqsUpTo(SliceIds, n), models : ModelLists(MaxModels),
     axis_channel : SlicesMetricsOrModels, layer_channel : SlicesOrModels]

\* an axis bound to SLICES lists slice ids, any other axis lists model names
HeatmapAxes(n) ==
    ({"SLICES"} \X SeqsUpTo(SliceIds, n)) \cup ({"MODELS"} \X ModelLists(MaxModels))

HeatmapParameters(n) ==
    {[kind |-> "HeatmapParameters", metric |-> m, model |-> ModelNames[1],
      x_channel |-> x[1], x_values |-> x[2], y_channel |-> y[1], y_values |-> y[2]] :
        m \in MetricIds, x \in HeatmapAxes(n), y \in HeatmapAxes(n)}

Chart(type, parameters) == [type |-> type, parameters |-> parameters]

AnyParameters(n) ==
    XCParameters(n) \cup TableParameters(n) \cup BeeswarmParameters(n)
        \cup RadarParameters(n) \cup HeatmapParameters(n)

\* the parameter class each chart type is created with
ParametersOf(type, n) ==
    CASE type \in {"BAR", "LINE"} -> XCParameters(n)
      [] type = "TABLE" -> TableParameters(n)
      [] type = "BEESWARM" -> BeeswarmParameters(n)
      [] type = "RADAR" -> RadarParameters(n)
      [] type = "HEATMAP" -> HeatmapParameters(n)
      [] OTHER -> {}

\* a chart as its creator builds it: the parameter class of its type, lists up
\* to MaxDeclared long
WellFormed(c) ==
    \E t \in ChartTypes : \E ps \in ParametersOf(t, MaxDeclared) : c = Chart(t, ps)

\* a chart of any type with any parameter class and lists of at most one entry
AnyChart(c) ==
    \E t \in ChartTypes : \E ps \in AnyParameters(1) : c = Chart(t, ps)

-----------------------------------------------------------------------------
(* processing/chart.py: resolution of the declared ids *)

\* FirstMetric falling back to the last metric of the catalogue
RECURSIVE FirstMetricOrLast(_, _)
FirstMetricOrLast(all_metrics, id) ==
    IF all_metrics = <<>> THEN CountMetric
    ELSE IF Head(all_metrics).id = id \/ Len(all_metrics) = 1 THEN Head(all_metrics)
    ELSE FirstMetricOrLast(Tail(all_metrics), id)

\* next((x for x in all_metrics if x.id == id), Metric(id=-1, name="count"))
RECURSIVE FirstMetric(_, _)
FirstMetric(all_metrics, id) ==
    IF all_metrics = <<>> THEN CountMetric
    ELSE IF Head(all_metrics).id = id THEN Head(all_metrics)
    ELSE FirstMetric(Tail(all_metrics), id)

\* list(filter(lambda metric: metric.id in ids, metrics(project) + [count]))
FilterMetrics(all_metrics, ids) ==
    LET Declared(m) == InSeq(m.id, ids)
    IN  SelectSeq(all_metrics \o <<CountMetric>>, Declared)

\* WithAllInstances putting the synthetic slice first
WithAllInstancesFirst(selected, ids) ==
    IF InSeq(-1, ids) THEN <<AllInstances>> \o selected ELSE selected

\* WithAllInstances standing in for every declared id that resolved to nothing
WithAllInstancesForMissing(selected, ids) ==
    IF InSeq(-1, ids) \/ Len(selected) < Len(ids)
    THEN selected \o <<AllInstances>> ELSE selected

\* if -1 in ids: selected_slices = selected_slices + [Slice(id=-1, ...)]
WithAllInstances(selected, ids) ==
    IF InSeq(-1, ids) THEN selected \o <<AllInstances>> ELSE selected

RECURSIVE MapRaw(_)
MapRaw(values) ==
    IF values = <<>> THEN <<>> ELSE <<Raw(Head(values))>> \o MapRaw(Tail(values))

Resolved(ms, x, y, models, q) ==
    [metrics |-> ms, x |-> x, y |-> y, models |-> models, queries |-> q]

xyc_resolve(ps, p) ==
    Resolved(<<FirstMetric(metrics(p), ps.metric)>>,
             WithAllInstances(slices(p, ps.slices), ps.slices), <<>>, ps.models,
             <<"metrics">> \o slices_queries(ps.slices))

table_resolve(ps, p) ==
    Resolved(FilterMetrics(metrics(p), ps.metrics),
             WithAllInstances(slices(p, ps.slices), ps.slices), <<>>, ps.models,
             <<"metrics">> \o slices_queries(ps.slices))

beeswarm_resolve(ps, p) ==
    Resolved(FilterMetrics(metrics(p), ps.metrics),
             WithAllInstances(slices(p, ps.slices), ps.slices), <<>>, ps.models,
             <<"metrics">> \o slices_queries(ps.slices))

radar_resolve(ps, p) ==
    Resolved(FilterMetrics(metrics(p), ps.metrics),
             WithAllInstances(slices(p, ps.slices), ps.slices), <<>>, ps.models,
             <<"metrics">> \o slices_queries(ps.slices))

\* one axis of the heatmap: slices(project, values) plus the synthetic slice
\* when the axis is slice-valued, the declared values otherwise
heatmap_axis(p, channel, values) ==
    IF channel = "SLICES" THEN WithAllInstances(slices(p, values), values)
    ELSE MapRaw(values)

heatmap_axis_queries(channel, values) ==
    IF channel = "SLICES" THEN slices_queries(values) ELSE <<>>

heatmap_resolve(ps, p) ==
    Resolved(<<FirstMetric(metrics(p), ps.metric)>>,
             heatmap_axis(p, ps.x_channel, ps.x_values),
             heatmap_axis(p, ps.y_channel, ps.y_values), <<ps.model>>,
             <<"metrics">> \o heatmap_axis_queries(ps.x_channel, ps.x_values)
                 \o heatmap_axis_queries(ps.y_channel, ps.y_values))

-----------------------------------------------------------------------------
(* processing/chart.py: the records *)

\* xyc_element with y_value taken from the support
xyc_element_y_from_size(ps, current_slice, model, metric) ==
    [x_value |-> IF ps.x_channel = "SLICES" THEN current_slice.slice_name ELSE model,
     color_value |-> IF ps.color_channel = "MODELS" THEN model
                     ELSE current_slice.slice_name,
     y_value |-> <<metric.size>>,
     size |-> metric.size]

\* xyc_element with the test of the color channel inverted
xyc_element_color_inverted(ps, current_slice, model, metric) ==
    [x_value |-> IF ps.x_channel = "SLICES" THEN current_slice.slice_name ELSE model,
     color_value |-> IF ps.color_channel = "MODELS" THEN current_slice.slice_name
                     ELSE model,
     y_value |-> metric.metric,
     size |-> metric.size]

xyc_element(ps, current_slice, model, metric) ==
    [x_value |-> IF ps.x_channel = "SLICES" THEN current_slice.slice_name ELSE model,
     color_value |-> IF ps.color_channel = "MODELS" THEN model
                     ELSE current_slice.slice_name,
     y_value |-> metric.metric,
     size |-> metric.size]

table_element(ps, current_metric, current_slice, model, metric) ==
    [x_value |-> IF ps.x_channel = "SLICES" THEN current_slice.id
                 ELSE IF ps.x_channel = "MODELS" THEN model
                 ELSE current_metric.id,
     fixed_value |-> metric.metric,
     y_value |-> IF ps.y_channel = "SLICES" THEN current_slice.id ELSE model,
     size |-> metric.size]

\* beeswarm_element without the metric name
beeswarm_element_no_metric(ps, current_metric, current_slice, model, metric) ==
    [color_value |-> IF ps.color_channel = "SLICES" THEN current_slice.slice_name
                     ELSE model,
     x_value |-> metric.metric,
     y_value |-> IF ps.y_channel = "SLICES" THEN current_slice.slice_name ELSE model,
     size |-> metric.size]

beeswarm_element(ps, current_metric, current_slice, model, metric) ==
    [color_value |-> IF ps.color_channel = "SLICES" THEN current_slice.slice_name
                     ELSE model,
     x_value |-> metric.metric,
     y_value |-> IF ps.y_channel = "SLICES" THEN current_slice.slice_name ELSE model,
     size |-> metric.size,
     metric |-> current_metric.name]

\* radar_element with the test of the layer channel inverted
radar_element_layer_inverted(ps, current_metric, current_slice, model, metric) ==
    [axis_value |-> IF ps.axis_channel = "SLICES" THEN current_slice.slice_name
                    ELSE IF ps.axis_channel = "MODELS" THEN model
                    ELSE current_metric.name,
     fixed_value |-> metric.metric,
     layer_value |-> IF ps.layer_channel = "SLICES" THEN model
                     ELSE current_slice.slice_name,
     size |-> metric.size]

radar_element(ps, current_metric, current_slice, model, metric) ==
    [axis_value |-> IF ps.axis_channel = "SLICES" THEN current_slice.slice_name
                    ELSE IF ps.axis_channel = "MODELS" THEN model
                    ELSE current_metric.name,
     fixed_value |-> metric.metric,
     layer_value |-> IF ps.layer_channel = "SLICES" THEN current_slice.slice_name
                     ELSE model,
     size |-> metric.size]

heatmap_element(ps, current_x, current_y, metric) ==
    [x_value |-> IF ps.x_channel = "SLICES" THEN current_x.slice_name
                 ELSE current_x.value,
     fixed_value |-> metric.metric,
     y_value |-> IF ps.y_channel = "SLICES" THEN current_y.slice_name
                 ELSE current_y.value,
     size |-> metric.size]

-----------------------------------------------------------------------------
(* processing/chart.py: dispatch and loops *)

\* Dispatch with heatmap_data as the final else branch
DispatchElseHeatmap(type) ==
    CASE type = "BAR" \/ type = "LINE" -> "xyc_data"
      [] type = "TABLE" -> "table_data"
      [] type = "BEESWARM" -> "beeswarm_data"
      [] type = "RADAR" -> "radar_data"
      [] OTHER -> "heatmap_data"

\* chart_data: the strategy a chart type goes to, "none" for the else branch
Dispatch(type) ==
    CASE type = "BAR" \/ type = "LINE" -> "xyc_data"
      [] type = "TABLE" -> "table_data"
      [] type = "BEESWARM" -> "beeswarm_data"
      [] type = "RADAR" -> "radar_data"
      [] type = "HEATMAP" -> "heatmap_data"
      [] OTHER -> "none"

\* the isinstance check at the head of each strategy
IsInstance(ps, s) ==
    CASE s = "xyc_data" -> ps.kind = "XCParameters"
      [] s = "table_data" -> ps.kind = "TableParameters"
      [] s = "beeswarm_data" -> ps.kind = "BeeswarmParameters"
      [] s = "radar_data" -> ps.kind = "RadarParameters"
      [] s = "heatmap_data" -> ps.kind = "HeatmapParameters"
      [] OTHER -> FALSE

Resolve(s, ps, p) ==
    CASE s = "xyc_data" -> xyc_resolve(ps, p)
      [] s = "table_data" -> table_resolve(ps, p)
      [] s = "beeswarm_data" -> beeswarm_resolve(ps, p)
      [] s = "radar_data" -> radar_resolve(ps, p)
      [] s = "heatmap_data" -> heatmap_resolve(ps, p)

\* lengths of the three nested for loops: outer m, middle s, inner k
Dims ==
    IF strategy = "heatmap_data"
    THEN [m |-> 1, s |-> Len(selected_x), k |-> Len(selected_y)]
    ELSE [m |-> Len(selected_metrics), s |-> Len(selected_x),
          k |-> Len(selected_models)]

FirstIdx == [m |-> 1, s |-> 1, k |-> 1]

\* the loop body runs at position i
InLoop(i, d) == d.m > 0 /\ d.s > 0 /\ d.k > 0 /\ i.m <= d.m

\* NextIdx with the slice loop nested inside the model loop
NextIdxSliceInner(i, d) ==
    IF i.s < d.s THEN [i EXCEPT !.s = i.s + 1]
    ELSE IF i.k < d.k THEN [m |-> i.m, s |-> 1, k |-> i.k + 1]
    ELSE [m |-> i.m + 1, s |-> 1, k |-> 1]

\* the position after i: the innermost loop advances first
NextIdx(i, d) ==
    IF i.k < d.k THEN [i EXCEPT !.k = i.k + 1]
    ELSE IF i.s < d.s THEN [m |-> i.m, s |-> i.s + 1, k |-> 1]
    ELSE [m |-> i.m + 1, s |-> 1, k |-> 1]

Call(metric, model, has_filter, filter) ==
    [project |-> project, metric |-> metric, model |-> model,
     has_filter |-> has_filter, filter |-> filter]

EmptyPayload == [table |-> <<>>]

-----------------------------------------------------------------------------
(* State machine *)

\* no call of filered_short_string_column_values is under way
StringIdle ==
    /\ req = [filter_string |-> <<>>, is_regex |-> FALSE, case_match |-> FALSE,
              whole_word_match |-> FALSE]
    /\ column_values = <<>>
    /\ string_pc = "idle"
    /\ returned_strings = <<>>
    /\ short_ret = <<>>

\* no call of slices and no call of projects is under way
SelectIdle ==
    /\ slices_call = [pc |-> "idle"]
    /\ projects_call = [pc |-> "idle"]

\* Database(): conn and cur are None (0), no connection was made, no method
\* was called
NewDatabase ==
    [conn |-> 0, cur |-> 0, open |-> {}, made |-> 0, method |-> "__init__",
     before |-> [conn |-> 0, cur |-> 0, made |-> 0], trace |-> <<>>,
     raised |-> ""]

DatabaseIdle == db = NewDatabase

Slots == {1}

\* a slot that holds no invocation
NoRequest ==
    [handler |-> "none", pc |-> "idle", args |-> <<>>,
     check |-> [kind |-> "none", projects |-> <<>>, passed |-> FALSE],
     ops |-> <<>>, cached |-> <<>>, chart |-> <<>>, data |-> <<>>,
     config |-> <<>>, response |-> <<>>]

\* no request was ever received
RouterIdle ==
    /\ charts_table = <<>>
    /\ next_chart_id = 1
    /\ chart_configs = <<>>
    /\ grants = [read |-> {}, edit |-> {}]
    /\ requests = [r \in Slots |-> NoRequest]

Init ==
    /\ StringIdle
    /\ DatabaseIdle
    /\ RouterIdle
    /\ SelectIdle
    /\ metrics_table = MetricRows
    /\ slices_table = SliceRows
    /\ WellFormed(chart) \/ AnyChart(chart)
    /\ project \in Projects
    /\ filter_optional \in
           IF Dispatch(chart.type) = "heatmap_data"
                  /\ IsInstance(chart.parameters, "heatmap_data")
           THEN BOOLEAN ELSE {FALSE}
    /\ pc = "start"
    /\ strategy = "none"
    /\ selected_metrics = <<>>
    /\ selected_x = <<>>
    /\ selected_y = <<>>
    /\ selected_models = <<>>
    /\ idx = FirstIdx
    /\ elements = <<>>
    /\ calls = <<>>
    /\ queries = <<>>
    /\ returned = <<>>
    /\ raised = ""
    /\ store_failed = FALSE

\* no call of chart_data is under way
ChartIdle ==
    /\ metrics_table = MetricRows
    /\ slices_table = SliceRows
    /\ chart = Chart("OTHER", [kind |-> "none"])
    /\ project = "p"
    /\ filter_optional = FALSE
    /\ pc = "idle"
    /\ strategy = "none"
    /\ selected_metrics = <<>>
    /\ selected_x = <<>>
    /\ selected_y = <<>>
    /\ selected_models = <<>>
    /\ idx = FirstIdx
    /\ elements = <<>>
    /\ calls = <<>>
    /\ queries = <<>>
    /\ returned = <<>>
    /\ raised = ""
    /\ store_failed = FALSE

Store == <<metrics_table, slices_table>>
Args == <<chart, project, filter_optional, NotChart>>
Selected == <<selected_metrics, selected_x, selected_y, selected_models>>

\* chart_data whose strategies look the metrics up before the isinstance check
ChartDataCallLookupFirst ==
    /\ pc = "start"
    /\ strategy' = Dispatch(chart.type)
    /\ IF IsInstance(chart.parameters, strategy')
       THEN LET r == Resolve(strategy', chart.parameters, project)
            IN  /\ selected_metrics' = r.metrics
                /\ selected_x' = r.x
                /\ selected_y' = r.y
                /\ selected_models' = r.models
                /\ queries' = r.queries
                /\ pc' = "loop"
                /\ returned' = returned
       ELSE /\ returned' = <<EmptyPayload>>
            /\ pc' = "done"
            /\ queries' = IF strategy' = "none" THEN queries
                          ELSE Append(queries, "metrics")
            /\ UNCHANGED Selected
    /\ UNCHANGED <<Store, Args, store_failed, idx, elements, calls, raised>>

\* chart_data up to the first loop iteration: dispatch on chart.type, the
\* strategy's isinstance check and its catalogue lookups
ChartDataCall ==
    /\ pc = "start"
    /\ strategy' = Dispatch(chart.type)
    /\ IF IsInstance(chart.parameters, strategy')
       THEN LET r == Resolve(strategy', chart.parameters, project)
            IN  /\ selected_metrics' = r.metrics
                /\ selected_x' = r.x
                /\ selected_y' = r.y
                /\ selected_models' = r.models
                /\ queries' = r.queries
                /\ pc' = "loop"
                /\ returned' = returned
       ELSE /\ returned' = <<EmptyPayload>>
            /\ pc' = "done"
            /\ UNCHANGED <<Selected, queries>>
    /\ UNCHANGED <<Store, Args, store_failed, idx, elements, calls, raised>>

\* one iteration of xyc_data's loop body: one evaluator call, one record
XycStep ==
    /\ pc = "loop"
    /\ strategy = "xyc_data"
    /\ InLoop(idx, Dims)
    /\ LET selected_metric == selected_metrics[1]
           current_slice == selected_x[idx.s]
           model == selected_models[idx.k]
           metric == metric_map(project, selected_metric, model,
                                current_slice.filter_predicates)
       IN  /\ calls' = Append(calls, Call(selected_metric, model, TRUE,
                                          current_slice.filter_predicates))
           /\ elements' = Append(elements,
                  xyc_element(chart.parameters, current_slice, model, metric))
    /\ idx' = NextIdx(idx, Dims)
    /\ UNCHANGED <<Store, Args, store_failed, Selected, pc, strategy, queries, returned, raised>>

\* one iteration of table_data's loop body
TableStep ==
    /\ pc = "loop"
    /\ strategy = "table_data"
    /\ InLoop(idx, Dims)
    /\ LET current_metric == selected_metrics[idx.m]
           current_slice == selected_x[idx.s]
           model == selected_models[idx.k]
           metric == metric_map(project, current_metric, model,
                                current_slice.filter_predicates)
       IN  /\ calls' = Append(calls, Call(current_metric, model, TRUE,
                                          current_slice.filter_predicates))
           /\ elements' = Append(elements,
                  table_element(chart.parameters, current_metric, current_slice, model, metric))
    /\ idx' = NextIdx(idx, Dims)
    /\ UNCHANGED <<Store, Args, store_failed, Selected, pc, strategy, queries, returned, raised>>

\* one iteration of beeswarm_data's loop body
BeeswarmStep ==
    /\ pc = "loop"
    /\ strategy = "beeswarm_data"
    /\ InLoop(idx, Dims)
    /\ LET current_metric == selected_metrics[idx.m]
           current_slice == selected_x[idx.s]
           model == selected_models[idx.k]
           metric == metric_map(project, current_metric, model,
                                current_slice.filter_predicates)
       IN  /\ calls' = Append(calls, Call(current_metric, model, TRUE,
                                          current_slice.filter_predicates))
           /\ elements' = Append(elements,
                  beeswarm_element(chart.parameters, current_metric, current_slice, model, metric))
    /\ idx' = NextIdx(idx, Dims)
    /\ UNCHANGED <<Store, Args, store_failed, Selected, pc, strategy, queries, returned, raised>>

\* one iteration of radar_data's loop body
RadarStep ==
    /\ pc = "loop"
    /\ strategy = "radar_data"
    /\ InLoop(idx, Dims)
    /\ LET current_metric == selected_metrics[idx.m]
           current_slice == selected_x[idx.s]
           model == selected_models[idx.k]
           metric == metric_map(project, current_metric, model,
                                current_slice.filter_predicates)
       IN  /\ calls' = Append(calls, Call(current_metric, model, TRUE,
                                          current_slice.filter_predicates))
           /\ elements' = Append(elements,
                  radar_element(chart.parameters, current_metric, current_slice, model, metric))
    /\ idx' = NextIdx(idx, Dims)
    /\ UNCHANGED <<Store, Args, store_failed, Selected, pc, strategy, queries, returned, raised>>

\* one iteration of heatmap_data's loop body
HeatmapStep ==
    /\ pc = "loop"
    /\ strategy = "heatmap_data"
    /\ InLoop(idx, Dims)
    /\ LET ps == chart.parameters
           x_slice == ps.x_channel = "SLICES"
           y_slice == ps.y_channel = "SLICES"
           current_x == selected_x[idx.s]
           current_y == selected_y[idx.k]
           selected_metric == selected_metrics[1]
       IN  IF x_slice /\ y_slice
           THEN \* current_y.filter_predicates.join = Join.AND, then
                \* metric_map(project, selected_metric, params.model)
                /\ selected_y' = [selected_y EXCEPT
                                     ![idx.k].filter_predicates.join = "AND"]
                /\ calls' = Append(calls,
                       Call(selected_metric, ps.model, FALSE, NoFilter))
                /\ IF filter_optional
                   THEN /\ elements' = Append(elements,
                               heatmap_element(ps, current_x, current_y,
                                   metric_map(project, selected_metric, ps.model,
                                              NoFilter)))
                        /\ idx' = NextIdx(idx, Dims)
                        /\ UNCHANGED <<pc, raised>>
                   ELSE \* the call lacks a required argument
                        /\ pc' = "raised"
                        /\ raised' = "TypeError"
                        /\ UNCHANGED <<elements, idx>>
           ELSE \* current_x.filter_predicates and current_y.filter_predicates
                \* are read before the call
                IF current_x.kind = "slice" /\ current_y.kind = "slice"
                THEN LET both == FilterPredicateGroup(
                                     <<current_x.filter_predicates,
                                       current_y.filter_predicates>>, "OMITTED")
                     IN  /\ calls' = Append(calls,
                                Call(selected_metric, ps.model, TRUE, both))
                         /\ elements' = Append(elements,
                                heatmap_element(ps, current_x, current_y,
                                    metric_map(project, selected_metric, ps.model,
                                               both)))
                         /\ idx' = NextIdx(idx, Dims)
                         /\ UNCHANGED <<selected_y, pc, raised>>
                ELSE /\ pc' = "raised"
                     /\ raised' = "AttributeError"
                     /\ UNCHANGED <<selected_y, calls, elements, idx>>
    /\ UNCHANGED <<Store, Args, store_failed, selected_metrics, selected_x, selected_models,
                   strategy, queries, returned>>

\* return json.dumps({"table": elements}) once the loops are exhausted
Return ==
    /\ pc = "loop"
    /\ ~InLoop(idx, Dims)
    /\ returned' = <<[table |-> elements]>>
    /\ pc' = "done"
    /\ UNCHANGED <<Store, Args, store_failed, Selected, strategy, idx, elements, calls, queries,
                   raised>>

Next ==
    \/ ChartDataCall
    \/ XycStep
    \/ TableStep
    \/ BeeswarmStep
    \/ RadarStep
    \/ HeatmapStep
    \/ Return

Spec == Init /\ [][Next]_vars

-----------------------------------------------------------------------------
(* The same call over a store whose queries can fail *)

\* a catalogue lookup of the strategy's prologue raises: connect_execute_return
\* re-raises what connect or execute raised, metrics() and slices() and the
\* strategy have no handler
LookupFails ==
    /\ pc = "start"
    /\ strategy' = Dispatch(chart.type)
    /\ IsInstance(chart.parameters, strategy')
    /\ LET r == Resolve(strategy', chart.parameters, project)
       IN  \E n \in 1..Len(r.queries) : queries' = SubSeq(r.queries, 1, n)
    /\ store_failed' = TRUE
    /\ pc' = "raised"
    /\ raised' = "Exception"
    /\ UNCHANGED <<Store, Args, Selected, idx, elements, calls, returned>>

\* EvaluatorFails with a handler that returns the records computed so far
EvaluatorFailsCaught ==
    /\ pc = "loop"
    /\ InLoop(idx, Dims)
    /\ strategy # "heatmap_data"
    /\ calls' = Append(calls, Call(selected_metrics[idx.m], selected_models[idx.k],
                                  TRUE, selected_x[idx.s].filter_predicates))
    /\ store_failed' = TRUE
    /\ pc' = "done"
    /\ returned' = <<[table |-> elements]>>
    /\ UNCHANGED <<Store, Args, Selected, strategy, idx, elements, queries, raised>>

\* the evaluator call of one iteration of xyc_data, table_data, beeswarm_data
\* or radar_data raises: the loop body has no handler, no record is appended
\* and the strategy is left without a return
EvaluatorFails ==
    /\ pc = "loop"
    /\ InLoop(idx, Dims)
    /\ strategy # "heatmap_data"
    /\ calls' = Append(calls, Call(selected_metrics[idx.m], selected_models[idx.k],
                                  TRUE, selected_x[idx.s].filter_predicates))
    /\ store_failed' = TRUE
    /\ pc' = "raised"
    /\ raised' = "Exception"
    /\ UNCHANGED <<Store, Args, Selected, strategy, idx, elements, queries, returned>>

\* the evaluator call of one heatmap cell raises, after the assignment to
\* current_y.filter_predicates.join
HeatmapEvaluatorFails ==
    /\ pc = "loop"
    /\ InLoop(idx, Dims)
    /\ strategy = "heatmap_data"
    /\ chart.parameters.x_channel = "SLICES"
    /\ chart.parameters.y_channel = "SLICES"
    /\ filter_optional
    /\ selected_y' = [selected_y EXCEPT ![idx.k].filter_predicates.join = "AND"]
    /\ calls' = Append(calls, Call(selected_metrics[1], chart.parameters.model,
                                  FALSE, NoFilter))
    /\ store_failed' = TRUE
    /\ pc' = "raised"
    /\ raised' = "Exception"
    /\ UNCHANGED <<Store, Args, selected_metrics, selected_x, selected_models,
                   strategy, idx, elements, queries, returned>>

NextFail ==
    \/ Next
    \/ LookupFails
    \/ EvaluatorFails
    \/ HeatmapEvaluatorFails

SpecFail == Init /\ [][NextFail]_vars

-----------------------------------------------------------------------------
(* database/select.py: filered_short_string_column_values                  *)
(* A string is a sequence of one-character strings. One behaviour is one   *)
(* call: Init draws the request and the column, the action is the call.    *)

MaxPattern == 2
MaxValue == 3

Alphabet == {"a", "A", "1"}

Strings(n) == SeqsUpTo(Alphabet, n)

\* str.lower() and SQL UPPER() on one character
LowerChar(c) == IF c = "A" THEN "a" ELSE c
UpperChar(c) == IF c = "a" THEN "A" ELSE c

Lower(str) == [i \in 1..Len(str) |-> LowerChar(str[i])]
Upper(str) == [i \in 1..Len(str) |-> UpperChar(str[i])]

\* SQL LIKE: % stands for any run of characters, _ for any one character, every
\* other character for itself, case-sensitively
RECURSIVE Like(_, _)
Like(value, pattern) ==
    IF pattern = <<>> THEN value = <<>>
    ELSE IF Head(pattern) = "%"
         THEN Like(value, Tail(pattern))
                  \/ (value # <<>> /\ Like(Tail(value), pattern))
         ELSE /\ value # <<>>
              /\ Head(pattern) = "_" \/ Head(pattern) = Head(value)
              /\ Like(Tail(value), Tail(pattern))

StartsWith(str, sub) ==
    Len(sub) <= Len(str) /\ SubSeq(str, 1, Len(sub)) = sub

\* str.find(sub): the lowest 0-based index where sub occurs, -1 if none
Find(str, sub) ==
    LET hits == {i \in 0..Len(str) : StartsWith(SubSeq(str, i + 1, Len(str)), sub)}
    IN  IF hits = {} THEN -1 ELSE CHOOSE i \in hits : \A j \in hits : i <= j

\* str[lo:hi] for lo >= 0 and hi >= 0
PySlice(str, lo, hi) ==
    SubSeq(str, lo + 1, IF hi < Len(str) THEN hi ELSE Len(str))

Ellipsis == <<".", ".", ".">>

\* loc_str of one result of the non-regex branch
loc_str_plain(result, filter_string) ==
    LET i == Find(result, filter_string)
        cut == PySlice(result, IF i < 20 THEN 0 ELSE i - 20, i + 20)
        front == IF i - 20 > 0 THEN Ellipsis \o cut ELSE cut
        both == IF i + 20 < Len(result) THEN front \o Ellipsis ELSE front
    IN  IF Len(result) > 40 + Len(filter_string) THEN both ELSE cut

\* loc_str of one result of the regex branch; the patterns drawn hold no regex
\* metacharacter, so re.search finds the first occurrence of the pattern
loc_str_regex(result, filter_string) ==
    LET i == Find(result, filter_string)
    IN  PySlice(result, IF i < 20 THEN 0 ELSE i - 20, i + 20)

RECURSIVE MapPlain(_, _)
MapPlain(results, filter_string) ==
    IF results = <<>> THEN <<>>
    ELSE <<loc_str_plain(Head(results), filter_string)>>
             \o MapPlain(Tail(results), filter_string)

RECURSIVE MapRegex(_, _)
MapRegex(results, filter_string) ==
    IF results = <<>> THEN <<>>
    ELSE (IF Find(Head(results), filter_string) >= 0
          THEN <<loc_str_regex(Head(results), filter_string)>> ELSE <<>>)
             \o MapRegex(Tail(results), filter_string)

\* req.filter_string as the function rewrites it before the query
Rewritten(r) ==
    LET wrapped == IF ~r.is_regex /\ ~r.whole_word_match
                   THEN <<"%">> \o r.filter_string \o <<"%">>
                   ELSE r.filter_string
    IN  IF ~r.is_regex /\ ~r.case_match THEN Lower(wrapped) ELSE wrapped

\* the WHERE clause of the query the function sends, on one column value
Where(r, value, pattern) ==
    IF ~r.is_regex /\ ~r.case_match THEN Like(Upper(value), pattern)
    ELSE Like(value, pattern)

StringRequests ==
    [filter_string : Strings(MaxPattern), is_regex : BOOLEAN,
     case_match : BOOLEAN, whole_word_match : BOOLEAN]

InitString ==
    /\ ChartIdle
    /\ DatabaseIdle
    /\ RouterIdle
    /\ SelectIdle
    /\ req \in StringRequests
    /\ column_values \in {<<value>> : value \in Strings(MaxValue)}
    /\ string_pc = "start"
    /\ returned_strings = <<>>
    /\ short_ret = <<>>

filered_short_string_column_values ==
    /\ string_pc = "start"
    /\ LET pattern == Rewritten(req)
           Matches(value) == Where(req, value, pattern)
           rows == SelectSeq(column_values, Matches)
       IN  /\ req' = [req EXCEPT !.filter_string = pattern]
           /\ returned_strings' = rows
           /\ short_ret' = IF req.is_regex THEN MapRegex(rows, pattern)
                           ELSE MapPlain(PySlice(rows, 0, 5), pattern)
    /\ string_pc' = "done"
    /\ UNCHANGED <<NotString, column_values>>

NextString == filered_short_string_column_values

SpecString == InitString /\ [][NextString]_vars

-----------------------------------------------------------------------------
(* database/database.py: class Database                                    *)
(* conn and cur hold 0 for None, else the number of the connection (for    *)
(* cur: of the connection the cursor belongs to). open is the set of       *)
(* connections made and not closed. trace lists, for the last method call, *)
(* the methods entered and the driver calls made; "raise" marks a driver   *)
(* call that raised.                                                       *)

MaxConnects == 3

ConnectOutcomes == {"ok", "connect_raises", "cursor_raises"}
DriverOutcomes == {"ok", "raises"}

DriverCalls ==
    {"psycopg.connect", "conn.cursor", "cur.execute", "cur.fetchall",
     "conn.commit", "cur.close", "conn.close"}

NoConnection == "No connection to the database"

\* a method is entered: the trace restarts
Entered(o, method) ==
    [o EXCEPT !.method = method, !.before = [conn |-> o.conn, cur |-> o.cur, made |-> o.made],
              !.trace = <<>>, !.raised = ""]

Did(o, steps) == [o EXCEPT !.trace = o.trace \o steps]

Raise(o, error) == [o EXCEPT !.raised = error]

\* connect(): psycopg.connect, then conn.cursor(); either may raise
connect(o, outcome) ==
    LET id == o.made + 1
        c == Did(o, <<"connect", "psycopg.connect">>)
        made == [c EXCEPT !.conn = id, !.open = o.open \cup {id}, !.made = id]
    IN  CASE outcome = "connect_raises" -> Raise(Did(c, <<"raise">>), "Exception")
          [] outcome = "cursor_raises" ->
                 Raise(Did(made, <<"conn.cursor", "raise">>), "Exception")
          [] OTHER -> [Did(made, <<"conn.cursor">>) EXCEPT !.cur = id]

\* commit(): only when conn is not None
commit(o, outcome) ==
    LET c == Did(o, <<"commit">>)
    IN  IF o.conn = 0 THEN c
        ELSE IF outcome = "raises"
             THEN Raise(Did(c, <<"conn.commit", "raise">>), "Exception")
             ELSE Did(c, <<"conn.commit">>)

\* disconnect(): close cur and conn if set, then set both to None
disconnect(o) ==
    LET c == Did(o, <<"disconnect">>)
        d == IF o.cur # 0 THEN Did(c, <<"cur.close">>) ELSE c
        e == IF o.conn # 0
             THEN [Did(d, <<"conn.close">>) EXCEPT !.open = o.open \ {o.conn}]
             ELSE d
    IN  [e EXCEPT !.cur = 0, !.conn = 0]

\* execute raising on a Database that is not connected
execute_strict(o, outcome) ==
    LET c == Did(o, <<"execute">>)
    IN  IF o.cur = 0 THEN Raise(c, NoConnection)
        ELSE IF outcome = "raises"
             THEN Raise(Did(c, <<"cur.execute", "raise">>), "Exception")
             ELSE Did(c, <<"cur.execute">>)

\* execute(): only when cur is not None
execute(o, outcome) ==
    LET c == Did(o, <<"execute">>)
    IN  IF o.cur = 0 THEN c
        ELSE IF outcome = "raises"
             THEN Raise(Did(c, <<"cur.execute", "raise">>), "Exception")
             ELSE Did(c, <<"cur.execute">>)

\* execute_return(): raises when cur is None, else execute and fetchall
execute_return(o, outcome) ==
    LET c == Did(o, <<"execute_return">>)
    IN  IF o.cur = 0 THEN Raise(c, NoConnection)
        ELSE IF outcome = "raises"
             THEN Raise(Did(c, <<"cur.execute", "raise">>), "Exception")
             ELSE Did(c, <<"cur.execute", "cur.fetchall">>)

Outcomes == [connect : ConnectOutcomes, execute : DriverOutcomes,
             commit : DriverOutcomes]

\* connect_execute with the disconnect at the end of the try block
connect_execute_no_finally(o, outs) ==
    LET a == connect(o, outs.connect)
        b == IF a.raised = "" THEN execute(a, outs.execute) ELSE a
        c == IF b.raised = "" THEN commit(b, outs.commit) ELSE b
    IN  IF c.raised = "" THEN disconnect(c) ELSE c

\* connect_execute(): try connect, execute, commit; except re-raise; finally
\* disconnect
connect_execute(o, outs) ==
    LET a == connect(o, outs.connect)
        b == IF a.raised = "" THEN execute(a, outs.execute) ELSE a
        c == IF b.raised = "" THEN commit(b, outs.commit) ELSE b
    IN  disconnect(c)

\* connect_execute_return(): the same around execute_return
connect_execute_return(o, outs) ==
    LET a == connect(o, outs.connect)
        b == IF a.raised = "" THEN execute_return(a, outs.execute) ELSE a
        c == IF b.raised = "" THEN commit(b, outs.commit) ELSE b
    IN  disconnect(c)

InitDatabase ==
    /\ ChartIdle
    /\ StringIdle
    /\ RouterIdle
    /\ SelectIdle
    /\ db = NewDatabase

Connect ==
    /\ db.made < MaxConnects
    /\ \E outcome \in ConnectOutcomes : db' = connect(Entered(db, "connect"), outcome)
    /\ UNCHANGED NotDatabase

Commit ==
    /\ \E outcome \in DriverOutcomes : db' = commit(Entered(db, "commit"), outcome)
    /\ UNCHANGED NotDatabase

Disconnect ==
    /\ db' = disconnect(Entered(db, "disconnect"))
    /\ UNCHANGED NotDatabase

Execute ==
    /\ \E outcome \in DriverOutcomes : db' = execute(Entered(db, "execute"), outcome)
    /\ UNCHANGED NotDatabase

ExecuteReturn ==
    /\ \E outcome \in DriverOutcomes :
           db' = execute_return(Entered(db, "execute_return"), outcome)
    /\ UNCHANGED NotDatabase

ConnectExecute ==
    /\ db.made < MaxConnects
    /\ \E outs \in Outcomes :
           db' = connect_execute(Entered(db, "connect_execute"), outs)
    /\ UNCHANGED NotDatabase

ConnectExecuteReturn ==
    /\ db.made < MaxConnects
    /\ \E outs \in Outcomes :
           db' = connect_execute_return(Entered(db, "connect_execute_return"), outs)
    /\ UNCHANGED NotDatabase

\* __enter__: connect
Enter ==
    /\ db.made < MaxConnects
    /\ \E outcome \in ConnectOutcomes : db' = connect(Entered(db, "__enter__"), outcome)
    /\ UNCHANGED NotDatabase

\* __exit__: the body of disconnect
Exit ==
    /\ db' = disconnect(Entered(db, "__exit__"))
    /\ UNCHANGED NotDatabase

NextDatabase ==
    \/ Connect
    \/ Commit
    \/ Disconnect
    \/ Execute
    \/ ExecuteReturn
    \/ ConnectExecute
    \/ ConnectExecuteReturn
    \/ Enter
    \/ Exit

SpecDatabase == InitDatabase /\ [][NextDatabase]_vars

-----------------------------------------------------------------------------
(* routers/chart.py: the chart routes                                      *)
(* A request is received into a free slot and its handler then runs one    *)
(* step per await. The tables hold an option as <<>> (None, no row, NULL)  *)
(* or <<value>>. The database helpers and the permission checks of util    *)
(* are the collaborators the handlers call.                                *)

ChartIds == {1, 2}
ConfigChartIds == {0, 1}
Definitions == {"a", "b"}

Handlers ==
    {"get_charts", "get_chart", "get_chart_data", "get_chart_config",
     "get_charts_for_projects", "add_chart", "update_chart",
     "update_chart_config", "delete_chart", "delete_chart_config"}

Arguments(project_uuid, chart_id, parameters, project_uuids) ==
    [project_uuid |-> project_uuid, chart_id |-> chart_id,
     parameters |-> parameters, project_uuids |-> project_uuids]

\* the arguments a handler is called with; chart_id 0 is None
ArgsOf(handler) ==
    CASE handler = "get_charts" ->
             {Arguments(p, 0, "", <<>>) : p \in Projects}
      [] handler \in {"get_chart", "get_chart_data", "delete_chart"} ->
             {Arguments(p, c, "", <<>>) : p \in Projects, c \in ChartIds}
      [] handler \in {"get_chart_config", "update_chart_config",
                      "delete_chart_config"} ->
             {Arguments(p, c, "", <<>>) : p \in Projects, c \in ConfigChartIds}
      [] handler = "get_charts_for_projects" ->
             {Arguments("", 0, "", ps) : ps \in SeqsUpTo(Projects, 2)}
      [] handler = "add_chart" ->
             {Arguments(p, 0, d, <<>>) : p \in Projects, d \in Definitions}
      [] handler = "update_chart" ->
             {Arguments(p, c, d, <<>>) :
                  p \in Projects, c \in ChartIds, d \in Definitions}

\* the permission check a handler awaits first
RequiredCheck(handler) ==
    IF handler \in {"get_charts", "get_chart", "get_chart_data",
                    "get_chart_config", "get_charts_for_projects"}
    THEN "project_access_valid"
    ELSE "project_editor"

\* the projects a handler checks, in order
CheckedProjects(q) ==
    IF q.handler = "get_charts_for_projects" THEN q.args.project_uuids
    ELSE <<q.args.project_uuid>>

\* util.project_access_valid / util.project_editor return for an allowed
\* project and raise an HTTPException otherwise
Allowed(kind, p) ==
    IF kind = "project_editor" THEN p \in grants.edit ELSE p \in grants.read

Row(project_uuid, parameters, data) ==
    [project_uuid |-> project_uuid, parameters |-> parameters, data |-> data]

\* select.chart(chart_id): the chart or None
select_chart(id) ==
    IF charts_table[id] = <<>> THEN <<>>
    ELSE <<[id |-> id, project_uuid |-> charts_table[id][1].project_uuid,
            parameters |-> charts_table[id][1].parameters]>>

\* select.chart_data(chart_id): the cached payload or None
select_chart_data(id) ==
    IF charts_table[id] = <<>> THEN <<>> ELSE charts_table[id][1].data

\* update.chart_data(chart_id, data)
update_chart_data(id, data) ==
    IF charts_table[id] = <<>> THEN charts_table
    ELSE [charts_table EXCEPT ![id] = <<[@[1] EXCEPT !.data = <<data>>]>>]

\* update.chart(chart, project): new definition, cached payload dropped
update_chart(id, parameters) ==
    IF charts_table[id] = <<>> THEN charts_table
    ELSE [charts_table EXCEPT
              ![id] = <<Row(@[1].project_uuid, parameters, <<>>)>>]

\* select.charts(project) and select.charts_for_projects(project_uuids): ids
\* of the charts of the projects
select_charts(projects) ==
    {id \in ChartIds : charts_table[id] # <<>>
                         /\ charts_table[id][1].project_uuid \in projects}

\* the payload calculate_chart_data computes from a chart and the project it
\* is called with
calculate_chart_data(c, project_uuid) ==
    [table |-> <<c.parameters, project_uuid>>]

\* select.chart_config(project_uuid, chart_id) is not None
has_chart_config(project_uuid, chart_id) ==
    chart_configs[<<project_uuid, chart_id>>] > 0

Respond(q, status, body) ==
    [q EXCEPT !.pc = "done", !.response = <<[status |-> status, body |-> body]>>]

Op(q, name) == [q EXCEPT !.ops = Append(q.ops, name)]

At(q, label) == [q EXCEPT !.pc = label]

Grants ==
    {[read |-> {"p", "q"}, edit |-> {"p", "q"}],
     [read |-> {"p", "q"}, edit |-> {"p"}],
     [read |-> {"p"}, edit |-> {"p"}],
     [read |-> {"q"}, edit |-> {}]}

InitRouter ==
    /\ ChartIdle
    /\ StringIdle
    /\ DatabaseIdle
    /\ SelectIdle
    /\ charts_table = [id \in ChartIds |->
                           IF id = 1 THEN <<Row("p", "a", <<>>)>> ELSE <<>>]
    /\ next_chart_id = 2
    /\ chart_configs = [k \in Projects \X ConfigChartIds |-> 0]
    /\ grants \in Grants
    /\ requests = [r \in Slots |-> NoRequest]

Tables == <<charts_table, next_chart_id, chart_configs>>

\* FastAPI calls a handler; requests are served one at a time
Receive(r) ==
    /\ \A o \in Slots : requests[o].pc \in {"idle", "done"}
    /\ \E handler \in Handlers : \E args \in ArgsOf(handler) :
           requests' = [requests EXCEPT ![r] =
                            [NoRequest EXCEPT !.handler = handler, !.args = args,
                                              !.pc = "check"]]
    /\ UNCHANGED <<NotRouter, Tables, grants>>

\* CheckPermission that checks the first project of the list only
CheckPermissionFirstOnly(r) ==
    /\ requests[r].pc = "check"
    /\ LET q == requests[r]
           kind == RequiredCheck(q.handler)
           ps == CheckedProjects(q)
       IN  requests' = [requests EXCEPT ![r] =
               IF ps = <<>> THEN Respond(q, "200", <<>>)
               ELSE IF Allowed(kind, ps[1])
                    THEN At([q EXCEPT !.check = [kind |-> kind,
                                                 projects |-> SubSeq(ps, 1, 1),
                                                 passed |-> TRUE]], "body")
                    ELSE Respond([q EXCEPT !.check =
                                      [kind |-> kind,
                                       projects |-> SubSeq(ps, 1, 1),
                                       passed |-> FALSE]],
                                 "HTTPException", <<>>)]
    /\ UNCHANGED <<NotRouter, Tables, grants>>

\* CheckPermission that lets the handler go on after a failed check
CheckPermissionFailOpen(r) ==
    /\ requests[r].pc = "check"
    /\ LET q == requests[r]
           kind == RequiredCheck(q.handler)
           ps == CheckedProjects(q)
       IN  requests' = [requests EXCEPT ![r] =
               At([q EXCEPT !.check = [kind |-> kind, projects |-> ps,
                                       passed |-> \A i \in 1..Len(ps) :
                                                      Allowed(kind, ps[i])]],
                  "body")]
    /\ UNCHANGED <<NotRouter, Tables, grants>>

\* the awaits of util.project_access_valid / util.project_editor at the head
\* of a handler; get_charts_for_projects returns [] for an empty list and
\* checks every project of a non-empty one, stopping at the first that raises
CheckPermission(r) ==
    /\ requests[r].pc = "check"
    /\ LET q == requests[r]
           kind == RequiredCheck(q.handler)
           ps == CheckedProjects(q)
           denied == {i \in 1..Len(ps) : ~Allowed(kind, ps[i])}
           first == CHOOSE i \in denied : \A j \in denied : i <= j
       IN  requests' = [requests EXCEPT ![r] =
               IF ps = <<>> THEN Respond(q, "200", <<>>)
               ELSE IF denied = {}
                    THEN At([q EXCEPT !.check = [kind |-> kind, projects |-> ps,
                                                 passed |-> TRUE]], "body")
                    ELSE Respond([q EXCEPT !.check =
                                      [kind |-> kind,
                                       projects |-> SubSeq(ps, 1, first),
                                       passed |-> FALSE]],
                                 "HTTPException", <<>>)]
    /\ UNCHANGED <<NotRouter, Tables, grants>>

Running(r, handler, label) ==
    requests[r].handler = handler /\ requests[r].pc = label

\* get_charts: return await select.charts(project_uuid)
GetCharts(r) ==
    /\ Running(r, "get_charts", "body")
    /\ LET q == Op(requests[r], "select.charts")
       IN  requests' = [requests EXCEPT ![r] =
               Respond(q, "200", select_charts({q.args.project_uuid}))]
    /\ UNCHANGED <<NotRouter, Tables, grants>>

\* get_chart: return await select.chart(chart_id)
GetChart(r) ==
    /\ Running(r, "get_chart", "body")
    /\ LET q == Op(requests[r], "select.chart")
       IN  requests' = [requests EXCEPT ![r] =
               Respond(q, "200", select_chart(q.args.chart_id))]
    /\ UNCHANGED <<NotRouter, Tables, grants>>

\* get_chart_data: data = await select.chart_data(chart_id); returned when it
\* is not None
GetChartDataSelect(r) ==
    /\ Running(r, "get_chart_data", "body")
    /\ LET q == Op(requests[r], "select.chart_data")
           data == select_chart_data(q.args.chart_id)
       IN  requests' = [requests EXCEPT ![r] =
               IF data # <<>> THEN Respond([q EXCEPT !.cached = data], "200", data)
               ELSE At(q, "load")]
    /\ UNCHANGED <<NotRouter, Tables, grants>>

\* get_chart_data: chart = await select.chart(chart_id)
GetChartDataLoad(r) ==
    /\ Running(r, "get_chart_data", "load")
    /\ LET q == Op(requests[r], "select.chart")
       IN  requests' = [requests EXCEPT ![r] =
               At([q EXCEPT !.chart = select_chart(q.args.chart_id)], "calculate")]
    /\ UNCHANGED <<NotRouter, Tables, grants>>

\* get_chart_data: data = await calculate_chart_data(chart, project_uuid);
\* a chart of None has no attribute to dispatch on
GetChartDataCalculate(r) ==
    /\ Running(r, "get_chart_data", "calculate")
    /\ LET q == Op(requests[r], "calculate_chart_data")
       IN  requests' = [requests EXCEPT ![r] =
               IF q.chart = <<>> THEN Respond(q, "500", <<>>)
               ELSE At([q EXCEPT !.data = <<calculate_chart_data(
                                               q.chart[1], q.args.project_uuid)>>],
                       "update")]
    /\ UNCHANGED <<NotRouter, Tables, grants>>

\* GetChartDataUpdate without the write of the cache
GetChartDataNoUpdate(r) ==
    /\ Running(r, "get_chart_data", "update")
    /\ LET q == Op(requests[r], "update.chart_data")
       IN  requests' = [requests EXCEPT ![r] = Respond(q, "200", q.data)]
    /\ UNCHANGED <<NotRouter, Tables, grants>>

\* get_chart_data: await update.chart_data(chart_id, data); return data
GetChartDataUpdate(r) ==
    /\ Running(r, "get_chart_data", "update")
    /\ LET q == Op(requests[r], "update.chart_data")
       IN  /\ charts_table' = update_chart_data(q.args.chart_id, q.data[1])
           /\ requests' = [requests EXCEPT ![r] = Respond(q, "200", q.data)]
    /\ UNCHANGED <<NotRouter, next_chart_id, chart_configs, grants>>

\* get_chart_config: config = await select.chart_config(project_uuid),
\* returned when chart_id is None
GetChartConfigProject(r) ==
    /\ Running(r, "get_chart_config", "body")
    /\ LET q == Op(requests[r], "select.chart_config")
           found == <<has_chart_config(q.args.project_uuid, 0)>>
       IN  requests' = [requests EXCEPT ![r] =
               IF q.args.chart_id = 0 THEN Respond(q, "200", found)
               ELSE At([q EXCEPT !.config = found], "chart_config")]
    /\ UNCHANGED <<NotRouter, Tables, grants>>

\* get_chart_config: chart_config = await select.chart_config(project_uuid,
\* chart_id), merged over config
GetChartConfigChart(r) ==
    /\ Running(r, "get_chart_config", "chart_config")
    /\ LET q == Op(requests[r], "select.chart_config")
       IN  requests' = [requests EXCEPT ![r] =
               Respond(q, "200",
                   q.config \o <<has_chart_config(q.args.project_uuid,
                                                  q.args.chart_id)>>)]
    /\ UNCHANGED <<NotRouter, Tables, grants>>

\* get_charts_for_projects: await select.charts_for_projects(project_uuids)
GetChartsForProjects(r) ==
    /\ Running(r, "get_charts_for_projects", "body")
    /\ LET q == Op(requests[r], "select.charts_for_projects")
       IN  requests' = [requests EXCEPT ![r] =
               Respond(q, "200", select_charts(Range(q.args.project_uuids)))]
    /\ UNCHANGED <<NotRouter, Tables, grants>>

\* add_chart: id = await insert.chart(project_uuid, chart); 500 when id is
\* None (here: no id is left), else the id
AddChart(r) ==
    /\ Running(r, "add_chart", "body")
    /\ LET q == Op(requests[r], "insert.chart")
       IN  IF next_chart_id \in ChartIds
           THEN /\ charts_table' = [charts_table EXCEPT ![next_chart_id] =
                       <<Row(q.args.project_uuid, q.args.parameters, <<>>)>>]
                /\ next_chart_id' = next_chart_id + 1
                /\ requests' = [requests EXCEPT ![r] =
                       Respond(q, "200", <<next_chart_id>>)]
           ELSE /\ requests' = [requests EXCEPT ![r] = Respond(q, "500", <<>>)]
                /\ UNCHANGED <<charts_table, next_chart_id>>
    /\ UNCHANGED <<NotRouter, chart_configs, grants>>

\* Compared without the comparison of the project uuids
ComparedAnyProject(q, selected) ==
    IF selected = <<>> THEN Respond(q, "500", <<>>)
    ELSE At([q EXCEPT !.chart = selected], "write")

\* the comparison update_chart and delete_chart make after select.chart:
\* reading project_uuid of None raises, a chart of another project is refused
\* with 401
Compared(q, selected) ==
    IF selected = <<>> THEN Respond(q, "500", <<>>)
    ELSE IF selected[1].project_uuid = q.args.project_uuid
         THEN At([q EXCEPT !.chart = selected], "write")
         ELSE Respond(q, "401", <<>>)

\* update_chart: selected_chart = await select.chart(chart.id) and the
\* comparison of its project_uuid
UpdateChartSelect(r) ==
    /\ Running(r, "update_chart", "body")
    /\ LET q == Op(requests[r], "select.chart")
       IN  requests' = [requests EXCEPT ![r] =
               Compared(q, select_chart(q.args.chart_id))]
    /\ UNCHANGED <<NotRouter, Tables, grants>>

\* update_chart: await update.chart(chart, project_uuid)
UpdateChartWrite(r) ==
    /\ Running(r, "update_chart", "write")
    /\ LET q == Op(requests[r], "update.chart")
       IN  /\ charts_table' = update_chart(q.args.chart_id, q.args.parameters)
           /\ requests' = [requests EXCEPT ![r] = Respond(q, "200", <<>>)]
    /\ UNCHANGED <<NotRouter, next_chart_id, chart_configs, grants>>

\* update_chart_config: await select.chart_config(project_uuid, chart_id)
UpdateChartConfigSelect(r) ==
    /\ Running(r, "update_chart_config", "body")
    /\ LET q == Op(requests[r], "select.chart_config")
       IN  requests' = [requests EXCEPT ![r] =
               At([q EXCEPT !.config = <<has_chart_config(q.args.project_uuid,
                                                          q.args.chart_id)>>],
                  "write")]
    /\ UNCHANGED <<NotRouter, Tables, grants>>

\* update_chart_config: await update.chart_config when a config was found,
\* else await insert.chart_config
UpdateChartConfigWrite(r) ==
    /\ Running(r, "update_chart_config", "write")
    /\ LET q == requests[r]
           key == <<q.args.project_uuid, q.args.chart_id>>
       IN  IF q.config[1]
           THEN /\ requests' = [requests EXCEPT ![r] =
                       Respond(Op(q, "update.chart_config"), "200", <<>>)]
                /\ UNCHANGED chart_configs
           ELSE /\ requests' = [requests EXCEPT ![r] =
                       Respond(Op(q, "insert.chart_config"), "200", <<>>)]
                /\ chart_configs' = [chart_configs EXCEPT ![key] = @ + 1]
    /\ UNCHANGED <<NotRouter, charts_table, next_chart_id, grants>>

\* delete_chart: chart = await select.chart(chart_id) and the comparison of
\* its project_uuid
DeleteChartSelect(r) ==
    /\ Running(r, "delete_chart", "body")
    /\ LET q == Op(requests[r], "select.chart")
       IN  requests' = [requests EXCEPT ![r] =
               Compared(q, select_chart(q.args.chart_id))]
    /\ UNCHANGED <<NotRouter, Tables, grants>>

\* delete_chart: await delete.chart(chart_id)
DeleteChartWrite(r) ==
    /\ Running(r, "delete_chart", "write")
    /\ LET q == Op(requests[r], "delete.chart")
       IN  /\ charts_table' = [charts_table EXCEPT ![q.args.chart_id] = <<>>]
           /\ requests' = [requests EXCEPT ![r] = Respond(q, "200", <<>>)]
    /\ UNCHANGED <<NotRouter, next_chart_id, chart_configs, grants>>

\* delete_chart_config: await delete.chart_config(project_uuid, chart_id)
DeleteChartConfig(r) ==
    /\ Running(r, "delete_chart_config", "body")
    /\ LET q == Op(requests[r], "delete.chart_config")
           key == <<q.args.project_uuid, q.args.chart_id>>
       IN  /\ chart_configs' = [chart_configs EXCEPT ![key] = 0]
           /\ requests' = [requests EXCEPT ![r] = Respond(q, "200", <<>>)]
    /\ UNCHANGED <<NotRouter, charts_table, next_chart_id, grants>>

NextRouter ==
    \E r \in Slots :
        \/ Receive(r)
        \/ CheckPermission(r)
        \/ GetCharts(r)
        \/ GetChart(r)
        \/ GetChartDataSelect(r)
        \/ GetChartDataLoad(r)
        \/ GetChartDataCalculate(r)
        \/ GetChartDataUpdate(r)
        \/ GetChartConfigProject(r)
        \/ GetChartConfigChart(r)
        \/ GetChartsForProjects(r)
        \/ AddChart(r)
        \/ UpdateChartSelect(r)
        \/ UpdateChartWrite(r)
        \/ UpdateChartConfigSelect(r)
        \/ UpdateChartConfigWrite(r)
        \/ DeleteChartSelect(r)
        \/ DeleteChartWrite(r)
        \/ DeleteChartConfig(r)

SpecRouter == InitRouter /\ [][NextRouter]_vars

-----------------------------------------------------------------------------
(* database/select.py: slices(project, ids) called on its own             *)
(* slices_call.ids is <<>> for None and <<list>> for a list of ids.        *)

MaxIds == 3

SlicesInputs ==
    {[project |-> p, ids |-> ids, pc |-> "start", queries |-> <<>>, ret |-> <<>>] :
         p \in Projects,
         ids \in {<<>>} \cup {<<l>> : l \in SeqsUpTo(SliceIds, MaxIds)}}

InitSlices ==
    /\ ChartIdle
    /\ StringIdle
    /\ DatabaseIdle
    /\ RouterIdle
    /\ projects_call = [pc |-> "idle"]
    /\ slices_call \in SlicesInputs

\* one call of slices(project, ids)
SlicesCall ==
    /\ slices_call.pc = "start"
    /\ slices_call' =
           IF slices_call.ids = <<>>
           THEN [slices_call EXCEPT !.pc = "done", !.queries = <<"slices">>,
                                    !.ret = slices_all(slices_call.project)]
           ELSE [slices_call EXCEPT
                     !.pc = "done",
                     !.queries = slices_queries(slices_call.ids[1]),
                     !.ret = slices(slices_call.project, slices_call.ids[1])]
    /\ UNCHANGED NotSlices

NextSlices == SlicesCall

SpecSlices == InitSlices /\ [][NextSlices]_vars

-----------------------------------------------------------------------------
(* database/select.py: projects(user) called on its own                   *)
(* projects_call.tables holds the rows the three queries read: owner maps  *)
(* a project to its owner, user_project is the set of <<user, project>>    *)
(* rows, user_organization the set of <<user, organization>> rows and      *)
(* organization_project the set of <<organization, project>> rows. A query *)
(* returns its rows in the order of SortedProjects and SortedOrgs.         *)

Users == {"u", "v"}
Organizations == {"o1", "o2"}
SortedProjects == <<"p", "q">>
SortedOrgs == <<"o1", "o2">>

\* Project(uuid=..., owner_name=..., editor=...) with the fields the result
\* is compared on
Project(uuid, owner_name, via) == [uuid |-> uuid, owner_name |-> owner_name, via |-> via]

\* SELECT ... FROM projects WHERE owner_id = %s, mapped to Project
own_projects(t, user) ==
    LET Owned(u) == t.owner[u] = user
        Map(u) == Project(u, user, "own")
    IN  [i \in 1..Len(SelectSeq(SortedProjects, Owned)) |->
             Map(SelectSeq(SortedProjects, Owned)[i])]

\* SELECT ... FROM projects AS p JOIN user_project AS up ON p.uuid =
\* up.project_uuid WHERE up.user_id = %s, mapped to Project
user_projects(t, user) ==
    LET Shared(u) == <<user, u>> \in t.user_project
        rows == SelectSeq(SortedProjects, Shared)
    IN  [i \in 1..Len(rows) |-> Project(rows[i], t.owner[rows[i]], "user")]

\* the rows of the join of projects with user_organization JOIN
\* organization_project: one row for every organization of the user that the
\* project is shared with
RECURSIVE project_org_result(_, _, _)
project_org_result(t, user, orgs) ==
    IF orgs = <<>> THEN <<>>
    ELSE LET o == Head(orgs)
             Through(u) == <<user, o>> \in t.user_organization
                               /\ <<o, u>> \in t.organization_project
             rows == SelectSeq(SortedProjects, Through)
         IN  [i \in 1..Len(rows) |-> Project(rows[i], t.owner[rows[i]], "org")]
             \o project_org_result(t, user, Tail(orgs))

\* any(p.uuid == project.uuid for p in projects)
AnyUuid(projects, uuid) == \E i \in 1..Len(projects) : projects[i].uuid = uuid

\* list(filter(lambda project: not any(...user_projects) and not
\* any(...own_projects), org_projects))
org_projects(org, user, own) ==
    LET Kept(pr) == ~AnyUuid(user, pr.uuid) /\ ~AnyUuid(own, pr.uuid)
    IN  SelectSeq(org, Kept)

ProjectsInputs ==
    {[user |-> "u",
      tables |-> [owner |-> ow, user_project |-> up, user_organization |-> uo,
                  organization_project |-> op],
      pc |-> "start", own |-> <<>>, shared |-> <<>>, org |-> <<>>, ret |-> <<>>] :
         ow \in [Projects -> Users],
         up \in SUBSET ({"u"} \X Projects),
         uo \in SUBSET ({"u"} \X Organizations),
         op \in SUBSET (Organizations \X Projects)}

InitProjects ==
    /\ ChartIdle
    /\ StringIdle
    /\ DatabaseIdle
    /\ RouterIdle
    /\ slices_call = [pc |-> "idle"]
    /\ projects_call \in ProjectsInputs

\* one call of projects(user)
ProjectsCall ==
    /\ projects_call.pc = "start"
    /\ LET c == projects_call
           own == own_projects(c.tables, c.user)
           shared == user_projects(c.tables, c.user)
           org == org_projects(project_org_result(c.tables, c.user, SortedOrgs),
                               shared, own)
       IN  projects_call' = [c EXCEPT !.pc = "done", !.own = own,
                                      !.shared = shared, !.org = org,
                                      !.ret = own \o shared \o org]
    /\ UNCHANGED NotProjects

NextProjects == ProjectsCall

SpecProjects == InitProjects /\ [][NextProjects]_vars

-----------------------------------------------------------------------------
(* routers/chart.py: two handler invocations interleaved at their awaits   *)
(* The handlers are coroutines: between two awaits of one invocation the   *)
(* event loop may run any step of another. Both invocations name chart 1   *)
(* of project p and its configuration.                                     *)

ConcurrentSlots == {1, 2}

ConcurrentHandlers == {"get_chart_data", "update_chart", "update_chart_config"}

ConcurrentArgsOf(handler) ==
    {a \in ArgsOf(handler) : a.project_uuid = "p" /\ a.chart_id = 1}

InitConcurrent ==
    /\ ChartIdle
    /\ StringIdle
    /\ DatabaseIdle
    /\ SelectIdle
    /\ charts_table = [id \in ChartIds |->
                           IF id = 1 THEN <<Row("p", "a", <<>>)>> ELSE <<>>]
    /\ next_chart_id = 2
    /\ chart_configs = [k \in Projects \X ConfigChartIds |-> 0]
    /\ grants = [read |-> {"p"}, edit |-> {"p"}]
    /\ requests = [r \in ConcurrentSlots |-> NoRequest]

\* FastAPI calls a handler while another invocation may be suspended
ReceiveConcurrent(r) ==
    /\ requests[r].pc \in {"idle", "done"}
    /\ \E handler \in ConcurrentHandlers : \E args \in ConcurrentArgsOf(handler) :
           requests' = [requests EXCEPT ![r] =
                            [NoRequest EXCEPT !.handler = handler, !.args = args,
                                              !.pc = "check"]]
    /\ UNCHANGED <<NotRouter, Tables, grants>>

\* update_chart_config: await insert.chart_config for a pair that got a
\* configuration since the select, in a store that refuses a second row
UpdateChartConfigConflict(r) ==
    /\ Running(r, "update_chart_config", "write")
    /\ LET q == requests[r]
           key == <<q.args.project_uuid, q.args.chart_id>>
       IN  /\ ~q.config[1]
           /\ chart_configs[key] > 0
           /\ requests' = [requests EXCEPT ![r] =
                  Respond(Op(q, "insert.chart_config"), "500", <<>>)]
    /\ UNCHANGED <<NotRouter, Tables, grants>>

NextConcurrent ==
    \E r \in ConcurrentSlots :
        \/ ReceiveConcurrent(r)
        \/ CheckPermission(r)
        \/ GetChartDataSelect(r)
        \/ GetChartDataLoad(r)
        \/ GetChartDataCalculate(r)
        \/ GetChartDataUpdate(r)
        \/ UpdateChartSelect(r)
        \/ UpdateChartWrite(r)
        \/ UpdateChartConfigSelect(r)
        \/ UpdateChartConfigWrite(r)
        \/ UpdateChartConfigConflict(r)

SpecConcurrent == InitConcurrent /\ [][NextConcurrent]_vars

-----------------------------------------------------------------------------
(* Properties *)

\* the strategy ran past its isinstance check
Resolving == pc # "start" /\ IsInstance(chart.parameters, strategy)

MultiMetric == {"table_data", "beeswarm_data", "radar_data"}

\* positions of the i-th combination of an M x S x K cross product in
\* lexicographic order
LexM(i, S, K) == ((i - 1) \div (S * K)) + 1
LexS(i, S, K) == (((i - 1) \div K) % S) + 1
LexK(i, K) == ((i - 1) % K) + 1

\* the record a multi-metric strategy s builds for one combination
ElementOf(s, ps, current_metric, current_slice, model, metric) ==
    CASE s = "table_data" -> table_element(ps, current_metric, current_slice, model, metric)
      [] s = "beeswarm_data" -> beeswarm_element(ps, current_metric, current_slice, model, metric)
      [] s = "radar_data" -> radar_element(ps, current_metric, current_slice, model, metric)

\* the i-th evaluator call and the i-th record are those of the i-th
\* combination, metric outer, slice middle, model inner
IthIsLex(i) ==
    LET S == Len(selected_x)
        K == Len(selected_models)
        current_metric == selected_metrics[LexM(i, S, K)]
        current_slice == selected_x[LexS(i, S, K)]
        model == selected_models[LexK(i, K)]
    IN  /\ calls[i] = Call(current_metric, model, TRUE, current_slice.filter_predicates)
        /\ elements[i] = ElementOf(strategy, chart.parameters, current_metric,
                             current_slice, model,
                             metric_map(project, current_metric, model,
                                        current_slice.filter_predicates))

\* C1: chart_data sends BAR and LINE to xyc_data, TABLE to table_data, BEESWARM
\* to beeswarm_data, RADAR to radar_data and HEATMAP to heatmap_data; for any
\* other chart type it returns the payload {"table": []}, raises nothing and
\* makes no store query and no evaluator call.
C1_Dispatch ==
    pc # "start" =>
        /\ chart.type \in {"BAR", "LINE"} => strategy = "xyc_data"
        /\ chart.type = "TABLE" => strategy = "table_data"
        /\ chart.type = "BEESWARM" => strategy = "beeswarm_data"
        /\ chart.type = "RADAR" => strategy = "radar_data"
        /\ chart.type = "HEATMAP" => strategy = "heatmap_data"
        /\ chart.type \notin {"BAR", "LINE", "TABLE", "BEESWARM", "RADAR", "HEATMAP"} =>
               /\ strategy = "none"
               /\ pc = "done"
               /\ raised = ""
               /\ Len(returned) = 1
               /\ Len(returned[1].table) = 0
               /\ Len(queries) = 0
               /\ Len(calls) = 0

C1_Witness ==
    /\ pc = "done"
    /\ chart.type = "OTHER"
    /\ chart.parameters.kind = "HeatmapParameters"
    /\ Len(returned) = 1

\* C2: table_data, beeswarm_data and radar_data make one evaluator call per
\* record, the records are in lexicographic order metric, slice, model, and the
\* returned payload has |resolved metrics| x |resolved slices| x |models| records.
C2_CrossProduct ==
    (Resolving /\ strategy \in MultiMetric) =>
        /\ raised = ""
        /\ Len(calls) = Len(elements)
        /\ \A i \in 1..Len(elements) : IthIsLex(i)
        /\ pc = "done" =>
               /\ Len(returned) = 1
               /\ Len(returned[1].table) =
                      Len(selected_metrics) * Len(selected_x) * Len(selected_models)
               /\ Len(elements) = Len(returned[1].table)

C2_Witness ==
    /\ Resolving
    /\ pc = "done"
    /\ strategy = "radar_data"
    /\ Len(selected_metrics) = 2
    /\ Len(selected_x) = 2
    /\ Len(selected_models) = 2
    /\ Len(returned) = 1
    /\ Len(returned[1].table) = 8

\* C3: xyc_data uses one single metric, makes one evaluator call per record in
\* order slice outer, model inner, each record's y_value and size are the
\* metric value and the support of its own call, and the returned payload has
\* |resolved slices| x |models| records.
C3_Xyc ==
    (Resolving /\ strategy = "xyc_data") =>
        /\ raised = ""
        /\ Len(selected_metrics) = 1
        /\ Len(calls) = Len(elements)
        /\ \A i \in 1..Len(elements) :
               LET S == Len(selected_x)
                   K == Len(selected_models)
                   current_slice == selected_x[LexS(i, S, K)]
                   model == selected_models[LexK(i, K)]
                   metric == metric_map(project, selected_metrics[1], model,
                                        current_slice.filter_predicates)
               IN  /\ calls[i] = Call(selected_metrics[1], model, TRUE,
                                      current_slice.filter_predicates)
                   /\ elements[i].y_value = metric.metric
                   /\ elements[i].size = metric.size
        /\ pc = "done" =>
               /\ Len(returned) = 1
               /\ Len(returned[1].table) = Len(selected_x) * Len(selected_models)
               /\ Len(elements) = Len(returned[1].table)

C3_Witness ==
    /\ Resolving
    /\ pc = "done"
    /\ strategy = "xyc_data"
    /\ Len(selected_x) = 2
    /\ Len(selected_models) = 2
    /\ Len(returned[1].table) = 4
    /\ returned[1].table[1].size # returned[1].table[3].size
    /\ Len(returned[1].table[1].y_value) = 1

\* ids of the metrics and of the stored slices of the project's catalogue
CatalogueMetricIds == {r.id : r \in {r \in Range(metrics_table) : r.project_uuid = project}}
CatalogueSliceIds == {r.id : r \in {r \in Range(slices_table) : r.project_uuid = project}}

\* a BAR chart with slices [-1], models ["m1", "m2"] and x bound to MODELS has
\* been computed
BarAllInstancesByModel ==
    /\ pc = "done"
    /\ chart.type = "BAR"
    /\ chart.parameters.kind = "XCParameters"
    /\ chart.parameters.slices = <<-1>>
    /\ chart.parameters.models = <<"m1", "m2">>
    /\ chart.parameters.x_channel = "MODELS"

TwoRowsOverAllInstances ==
    /\ Len(returned) = 1
    /\ Len(returned[1].table) = 2
    /\ \A i \in 1..Len(returned[1].table) :
           /\ returned[1].table[i].x_value \in {"m1", "m2"}
           /\ returned[1].table[i].color_value = "All instances"

\* C4 as stated: a BAR chart with slices [-1], models ["m1", "m2"] and x bound
\* to MODELS yields 2 rows with x_value in {"m1", "m2"} and color_value
\* "All instances", whatever the color channel.
C4_AsStated == BarAllInstancesByModel => TwoRowsOverAllInstances

\* C4: a BAR chart with slices [-1], models ["m1", "m2"], x bound to MODELS and
\* color bound to SLICES yields 2 rows with x_value in {"m1", "m2"} and
\* color_value "All instances"; with color bound to MODELS the color_value of a
\* row is its model.
C4_BarScenario ==
    BarAllInstancesByModel =>
        IF chart.parameters.color_channel = "SLICES"
        THEN TwoRowsOverAllInstances
        ELSE /\ Len(returned[1].table) = 2
             /\ \A i \in 1..Len(returned[1].table) :
                    /\ returned[1].table[i].x_value \in {"m1", "m2"}
                    /\ returned[1].table[i].color_value = returned[1].table[i].x_value

C4_Witness ==
    /\ BarAllInstancesByModel
    /\ chart.parameters.color_channel = "SLICES"
    /\ project = "p"
    /\ returned[1].table[1].x_value = "m1"
    /\ returned[1].table[2].x_value = "m2"
    /\ returned[1].table[2].color_value = "All instances"

\* the metric ids the chart declares
DeclaredMetricIds ==
    IF chart.parameters.kind \in {"XCParameters", "HeatmapParameters"}
    THEN {chart.parameters.metric}
    ELSE Range(chart.parameters.metrics)

UnknownMetricIds == DeclaredMetricIds \ (CatalogueMetricIds \cup {-1})

SliceLists ==
    IF strategy = "heatmap_data"
    THEN (IF chart.parameters.x_channel = "SLICES"
          THEN {<<chart.parameters.x_values, selected_x>>} ELSE {})
         \cup (IF chart.parameters.y_channel = "SLICES"
               THEN {<<chart.parameters.y_values, selected_y>>} ELSE {})
    ELSE {<<chart.parameters.slices, selected_x>>}

\* the catalogue lookups are done and no loop body has run
JustResolved == Resolving /\ pc = "loop" /\ idx = FirstIdx

\* C6: the resolved slice list holds the synthetic slice (id -1, name
\* "All instances", no predicates, join OMITTED) if and only if -1 is among the
\* declared slice ids; the store holds no slice -1; the synthetic slice is in
\* the list once, however often -1 is declared, and it is the last entry.
C6_SyntheticSlice ==
    /\ \A r \in Range(slices_table) : r.id # -1
    /\ (JustResolved \/ (Resolving /\ strategy # "heatmap_data")) =>
           \A l \in SliceLists :
               LET declared == l[1]
                   resolved == l[2]
                   synthetic == {i \in 1..Len(resolved) : resolved[i].id = -1}
               IN  /\ synthetic = IF InSeq(-1, declared) THEN {Len(resolved)} ELSE {}
                   /\ \A i \in synthetic : resolved[i] = AllInstances
                   /\ Len(resolved) > 0 =>
                          (resolved[Len(resolved)] = AllInstances <=> InSeq(-1, declared))

C6_Witness ==
    /\ Resolving
    /\ strategy = "beeswarm_data"
    /\ chart.parameters.slices = <<-1, 2>>
    /\ Len(selected_x) = 2
    /\ selected_x[1].id = 2
    /\ selected_x[2] = AllInstances

UnknownSliceIds(declared) == Range(declared) \ (CatalogueSliceIds \cup {-1})

\* C7 as stated: a declared slice id that is not in the catalogue (and is not
\* -1) is replaced by the synthetic "all instances" slice.
C7_AsStated ==
    Resolving =>
        \A l \in SliceLists :
            UnknownSliceIds(l[1]) # {} =>
                \E i \in 1..Len(l[2]) : l[2][i].id = -1

\* C7: a declared slice id that is not in the catalogue (and is not -1)
\* resolves to nothing: the resolved slices are exactly the stored slices of
\* the project whose id is declared, plus the synthetic slice only if -1 itself
\* is declared, so no evaluator call and no record is made for the unknown id.
C7_UnknownSlice ==
    Resolving =>
        /\ \A l \in SliceLists :
               /\ {l[2][i].id : i \in 1..Len(l[2])}
                      = Range(l[1]) \cap (CatalogueSliceIds \cup {-1})
               /\ (Range(l[1]) # {} /\ UnknownSliceIds(l[1]) = Range(l[1])) =>
                      /\ Len(l[2]) = 0
                      /\ Len(calls) = 0
                      /\ pc = "done" => Len(returned[1].table) = 0
        /\ strategy # "heatmap_data" =>
               \A i \in 1..Len(calls) :
                   \E j \in 1..Len(selected_x) :
                       /\ selected_x[j].id \notin UnknownSliceIds(chart.parameters.slices)
                       /\ calls[i].filter = selected_x[j].filter_predicates

C7_Witness ==
    /\ Resolving
    /\ pc = "done"
    /\ strategy = "table_data"
    /\ project = "p"
    /\ chart.parameters.slices = <<3, 1>>
    /\ Len(selected_metrics) = 1
    /\ Len(selected_models) = 2
    /\ Len(selected_x) = 1
    /\ Len(returned[1].table) = 2

BothAxesSlices ==
    /\ Resolving
    /\ strategy = "heatmap_data"
    /\ chart.parameters.x_channel = "SLICES"
    /\ chart.parameters.y_channel = "SLICES"

\* the rows of the project's data table that a predicate group selects
RowsOf(group) ==
    LET Sel(r) == MatchesGroup(r, group)
    IN  Range(SelectSeq(DataRows(project), Sel))

\* C8 as stated: with both heatmap axes slice-valued, the cell of each (x, y)
\* pair comes from one evaluator call whose filter selects the rows that both
\* the x slice and the y slice select; a cell of two slices that share no row
\* has size 0 and a null fixed_value.
C8_AsStated ==
    BothAxesSlices =>
        \A i \in 1..Len(calls) :
            LET S == Len(selected_x)
                K == Len(selected_y)
                both == RowsOf(selected_x[LexS(i, S, K)].filter_predicates)
                            \cap RowsOf(selected_y[LexK(i, K)].filter_predicates)
            IN  /\ calls[i].has_filter
                /\ RowsOf(calls[i].filter) = both
                /\ i <= Len(elements) =>
                       /\ elements[i].size = Cardinality(both)
                       /\ both = {} => elements[i].fixed_value = <<>>

OneAxisLiteral ==
    /\ Resolving
    /\ strategy = "heatmap_data"
    /\ ~(chart.parameters.x_channel = "SLICES" /\ chart.parameters.y_channel = "SLICES")

\* C9 as stated: with a heatmap axis that is not slice-valued, heatmap_data
\* completes without error and returns |x values| x |y values| records whose
\* field of the literal axis is the declared value.
C9_AsStated ==
    OneAxisLiteral =>
        /\ raised = ""
        /\ pc = "done" =>
               /\ Len(returned[1].table) = Len(selected_x) * Len(selected_y)
               /\ \A i \in 1..Len(returned[1].table) :
                      LET S == Len(selected_x)
                          K == Len(selected_y)
                      IN  /\ chart.parameters.x_channel # "SLICES" =>
                                 returned[1].table[i].x_value
                                     = chart.parameters.x_values[LexS(i, S, K)]
                          /\ chart.parameters.y_channel # "SLICES" =>
                                 returned[1].table[i].y_value
                                     = chart.parameters.y_values[LexK(i, K)]

\* C10 as stated: a strategy leaves the resolved slices as they were loaded:
\* at every point of the call each resolved slice has the predicates and the
\* join (OMITTED) that resolving the chart's declared ids yields.
C10_AsStated ==
    Resolving =>
        /\ selected_x = Resolve(strategy, chart.parameters, project).x
        /\ selected_y = Resolve(strategy, chart.parameters, project).y
        /\ \A i \in 1..Len(selected_y) :
               selected_y[i].kind = "slice" =>
                   selected_y[i].filter_predicates.join = "OMITTED"

-----------------------------------------------------------------------------
(* Payload shape and channels *)

\* the keys of one record of each strategy's payload
FieldsOf(s) ==
    CASE s = "xyc_data" -> {"x_value", "color_value", "y_value", "size"}
      [] s = "table_data" -> {"x_value", "y_value", "fixed_value", "size"}
      [] s = "beeswarm_data" -> {"x_value", "y_value", "color_value", "size", "metric"}
      [] s = "radar_data" -> {"axis_value", "layer_value", "fixed_value", "size"}
      [] s = "heatmap_data" -> {"x_value", "y_value", "fixed_value", "size"}
      [] OTHER -> {}

\* C11: every payload chart_data or a strategy returns is an object with the
\* single key "table", and every record built or returned by a strategy has
\* exactly the field set of that strategy's chart type.
C11_PayloadShape ==
    /\ \A i \in 1..Len(elements) : DOMAIN elements[i] = FieldsOf(strategy)
    /\ Len(returned) = 1 =>
           /\ DOMAIN returned[1] = {"table"}
           /\ \A i \in 1..Len(returned[1].table) :
                  DOMAIN returned[1].table[i] = FieldsOf(strategy)

C11_Witness ==
    /\ pc = "done"
    /\ strategy = "beeswarm_data"
    /\ Len(returned) = 1
    /\ Len(returned[1].table) >= 2
    /\ "metric" \in DOMAIN returned[1].table[2]

\* the source a three-way channel selects
ThreeWay(channel, of_slice, of_model, of_metric) ==
    IF channel = "SLICES" THEN of_slice
    ELSE IF channel = "MODELS" THEN of_model
    ELSE of_metric

\* the source a two-way channel selects
TwoWay(channel, of_slice, of_model) ==
    IF channel = "SLICES" THEN of_slice ELSE of_model

-----------------------------------------------------------------------------
(* The synthetic slice *)

\* C15: the empty predicate group of the synthetic "all instances" slice
\* matches every row: each record xyc_data, table_data, beeswarm_data or
\* radar_data computes for that slice has as size the number of rows of the
\* project's data table, whatever the model and the metric.
C15_EmptyGroupMatchesAll ==
    (Resolving /\ strategy # "heatmap_data") =>
        \A i \in 1..Len(elements) :
            (calls[i].has_filter /\ calls[i].filter = FilterPredicateGroup(<<>>, "OMITTED"))
                => elements[i].size = Len(DataRows(project))

C15_Witness ==
    /\ Resolving
    /\ strategy = "table_data"
    /\ project = "p"
    /\ Len(elements) >= 4
    /\ \E i \in 1..Len(elements) :
           /\ calls[i].filter = AllInstances.filter_predicates
           /\ calls[i].model = "m2"
           /\ calls[i].metric.name = "f1"
           /\ elements[i].size = 3
    /\ \E i \in 1..Len(elements) :
           /\ calls[i].filter # AllInstances.filter_predicates
           /\ elements[i].size < 3

-----------------------------------------------------------------------------
(* Failure propagation *)

\* C14: when a store query of a catalogue lookup or of an evaluator call
\* raises inside a strategy, the exception leaves the strategy and chart_data:
\* the call ends raised and returns no payload, not even one holding the
\* records computed before the failure.
C14_FailurePropagates ==
    store_failed =>
        /\ pc = "raised"
        /\ raised = "Exception"
        /\ returned = <<>>

C14_Witness ==
    /\ store_failed
    /\ strategy = "table_data"
    /\ Len(elements) >= 2
    /\ Len(calls) = Len(elements) + 1
    /\ pc = "raised"
    /\ returned = <<>>

-----------------------------------------------------------------------------
(* String matching *)

\* C16 as stated: without regex and without case_match the column value and
\* the pattern are compared after both are upper-cased, so the call returns
\* exactly the values that match the (wrapped, unless whole_word_match)
\* pattern up to letter case; in particular a value equal to the search string
\* is returned.
C16_AsStated ==
    (string_pc = "done" /\ ~req.is_regex /\ ~req.case_match) =>
        \A i \in 1..Len(column_values) :
            InSeq(column_values[i], returned_strings)
                <=> Like(Upper(column_values[i]), Upper(req.filter_string))

-----------------------------------------------------------------------------
(* Database *)

\* the methods entered during the last call, in order
MethodsOf(trace) ==
    LET IsMethod(e) == e \notin DriverCalls /\ e # "raise"
    IN  SelectSeq(trace, IsMethod)

NoDriverCall(trace) == \A i \in 1..Len(trace) : trace[i] \notin DriverCalls

\* C19: connect_execute and connect_execute_return run connect, execute (or
\* execute_return), commit, disconnect in that order, stopping at the first
\* step that raises and then going straight to disconnect; commit runs only
\* after an execute that did not raise; and whether the call returned or
\* raised, the object ends with conn = None and cur = None and every
\* connection the call opened is closed.
C19_ConnectExecute ==
    db.method \in {"connect_execute", "connect_execute_return"} =>
        LET steps == MethodsOf(db.trace)
            exec == IF db.method = "connect_execute" THEN "execute"
                    ELSE "execute_return"
        IN  /\ steps \in {<<"connect", "disconnect">>,
                          <<"connect", exec, "disconnect">>,
                          <<"connect", exec, "commit", "disconnect">>}
            /\ \A i \in 1..Len(db.trace) :
                   db.trace[i] = "commit" =>
                       /\ \E j \in 1..(i - 1) : db.trace[j] = "cur.execute"
                       /\ \A j \in 1..(i - 1) : db.trace[j] # "raise"
            /\ db.raised = "" <=> ~InSeq("raise", db.trace)
            /\ db.conn = 0
            /\ db.cur = 0
            /\ \A id \in (db.before.made + 1)..db.made : id \notin db.open

C19_Witness ==
    /\ db.method = "connect_execute_return"
    /\ db.raised = "Exception"
    /\ MethodsOf(db.trace) = <<"connect", "execute_return", "disconnect">>
    /\ InSeq("conn.close", db.trace)
    /\ db.made = db.before.made + 1
    /\ db.conn = 0
    /\ db.cur = 0

\* what the claim says of one call on a Database that was not connected
UnconnectedCall ==
    /\ db.method = "execute_return" =>
           db.raised = NoConnection /\ NoDriverCall(db.trace)
    /\ db.method \in {"execute", "commit", "disconnect"} =>
           db.raised = "" /\ NoDriverCall(db.trace)
    /\ db.method = "disconnect" => db.conn = 0 /\ db.cur = 0

\* C20 as stated: on a Database whose cur is None, execute_return raises "No
\* connection to the database" without running the query, execute, commit and
\* disconnect return normally without running anything, and disconnect leaves
\* the object as it was.
C20_AsStated ==
    db.before.cur = 0 => UnconnectedCall

\* C20: on a Database whose conn and cur are both None, execute_return raises
\* "No connection to the database" without running the query, and execute,
\* commit and disconnect return normally without any driver call; when cur is
\* None but conn is not (conn.cursor() raised in connect), execute_return and
\* execute behave the same, but commit commits on conn and disconnect closes
\* conn; disconnect always ends with conn = None and cur = None.
C20_Unconnected ==
    /\ (db.before.cur = 0 /\ db.before.conn = 0) => UnconnectedCall
    /\ (db.before.cur = 0 /\ db.before.conn # 0) =>
           /\ db.method = "execute_return" =>
                  db.raised = NoConnection /\ NoDriverCall(db.trace)
           /\ db.method = "execute" => db.raised = "" /\ NoDriverCall(db.trace)
           /\ db.method = "commit" => InSeq("conn.commit", db.trace)
           /\ db.method = "disconnect" =>
                  /\ db.trace = <<"disconnect", "conn.close">>
                  /\ db.before.conn \notin db.open
    /\ db.method = "disconnect" => (db.conn = 0 /\ db.cur = 0 /\ db.raised = "")

C20_Witness ==
    /\ db.method = "execute"
    /\ db.before.cur = 0
    /\ db.before.conn = 0
    /\ db.made > 0
    /\ db.raised = ""
    /\ db.trace = <<"execute">>

-----------------------------------------------------------------------------
(* Chart routes *)

\* the response of a finished invocation
Finished(q, handler, status) ==
    /\ q.handler = handler
    /\ q.pc = "done"
    /\ q.response[1].status = status

\* C17: a get_chart_data call that returns normally either found cached data
\* for the chart id and returned it after the one read of the cache, or found
\* none, loaded the chart, computed its data, wrote it to the cache under the
\* chart id and returned it; in both cases the cache of that chart id then
\* holds exactly the value returned.
C17_Cache ==
    \A r \in Slots :
        LET q == requests[r]
            id == q.args.chart_id
        IN  Finished(q, "get_chart_data", "200") =>
                /\ charts_table[id] # <<>>
                /\ charts_table[id][1].data # <<>>
                /\ charts_table[id][1].data = q.response[1].body
                /\ q.cached # <<>> =>
                       /\ q.ops = <<"select.chart_data">>
                       /\ q.response[1].body = q.cached
                /\ q.cached = <<>> =>
                       /\ q.ops = <<"select.chart_data", "select.chart",
                                    "calculate_chart_data", "update.chart_data">>
                       /\ q.chart = select_chart(id)
                       /\ q.response[1].body =
                              <<calculate_chart_data(q.chart[1], q.args.project_uuid)>>

C17_Witness ==
    \E r \in Slots :
        /\ Finished(requests[r], "get_chart_data", "200")
        /\ requests[r].cached = <<>>
        /\ requests[r].args.chart_id = 2
        /\ charts_table[2] # <<>>
        /\ charts_table[2][1].data = requests[r].response[1].body
        /\ charts_table[1] # <<>>
        /\ charts_table[1][1].data # <<>>

ReadHandlers ==
    {"get_charts", "get_chart", "get_chart_data", "get_chart_config",
     "get_charts_for_projects"}

MutatingHandlers ==
    {"add_chart", "update_chart", "update_chart_config", "delete_chart",
     "delete_chart_config"}

\* C18: a handler touches the store only after its permission check passed for
\* every project of the request, project_access_valid for the read handlers
\* and project_editor for the mutating ones; an invocation whose check failed
\* ends with the check's HTTPException and without any select, insert, update
\* or delete.
C18_CheckFirst ==
    \A r \in Slots :
        LET q == requests[r]
            wanted == IF q.handler \in ReadHandlers THEN "project_access_valid"
                      ELSE "project_editor"
        IN  /\ q.ops # <<>> =>
                   /\ q.handler \in ReadHandlers \cup MutatingHandlers
                   /\ q.check.passed
                   /\ q.check.kind = wanted
                   /\ q.check.projects = CheckedProjects(q)
                   /\ \A i \in 1..Len(q.check.projects) :
                          q.check.projects[i] \in
                              (IF q.handler \in MutatingHandlers THEN grants.edit
                               ELSE grants.read)
            /\ (q.check.kind # "none" /\ ~q.check.passed) =>
                   /\ q.ops = <<>>
                   /\ q.pc = "done"
                   /\ q.response[1].status = "HTTPException"

C18_Witness ==
    \E r \in Slots :
        /\ requests[r].handler = "delete_chart"
        /\ requests[r].args.project_uuid = "q"
        /\ "q" \in grants.read
        /\ requests[r].check.kind = "project_editor"
        /\ ~requests[r].check.passed
        /\ requests[r].pc = "done"
        /\ requests[r].ops = <<>>
        /\ charts_table[2] # <<>>

-----------------------------------------------------------------------------
(* Parameters of another strategy's type *)

Strategies == {"xyc_data", "table_data", "beeswarm_data", "radar_data",
               "heatmap_data"}

\* the call was dispatched to a strategy whose parameter type the chart's
\* parameters do not have
Mismatched ==
    /\ pc \notin {"start", "idle"}
    /\ strategy \in Strategies
    /\ ~IsInstance(chart.parameters, strategy)

\* C24: a strategy called with parameters that are not of its own parameter
\* type returns the empty payload {"table": []}, makes no catalogue lookup and
\* no evaluator call, and raises nothing.
C24_MismatchEmpty ==
    Mismatched =>
        /\ pc = "done"
        /\ returned = <<EmptyPayload>>
        /\ queries = <<>>
        /\ calls = <<>>
        /\ elements = <<>>
        /\ raised = ""

\* table_data was called with XCParameters and returned
C24_Witness ==
    /\ Mismatched
    /\ strategy = "table_data"
    /\ chart.parameters.kind = "XCParameters"
    /\ returned = <<EmptyPayload>>

-----------------------------------------------------------------------------
(* routers/chart.py: update_chart and delete_chart compare the project *)

\* the chart stored under the id a request names belongs to another project
\* than the one of the request path
OtherProject(q) ==
    /\ charts_table[q.args.chart_id] # <<>>
    /\ charts_table[q.args.chart_id][1].project_uuid # q.args.project_uuid

\* C22: update_chart and delete_chart change the store only when the stored
\* chart's project_uuid equals the project_uuid of the request path; for a
\* stored chart of another project they answer 401 and leave the store as it is.
C22_ProjectMatch ==
    [][\A r \in Slots :
           LET q == requests[r]
           IN  (q.handler \in {"update_chart", "delete_chart"}
                    /\ q.pc \in {"body", "write"}) =>
                   /\ (<<Tables>>' # <<Tables>>) =>
                          /\ charts_table[q.args.chart_id] # <<>>
                          /\ ~OtherProject(q)
                   /\ (OtherProject(q) /\ requests'[r] # q) =>
                          /\ requests'[r].pc = "done"
                          /\ requests'[r].response =
                                 <<[status |-> "401", body |-> <<>>]>>
                          /\ <<Tables>>' = <<Tables>>]_vars

\* update_chart for a chart of another project was refused with 401
C22_Witness ==
    \E r \in Slots :
        /\ Finished(requests[r], "update_chart", "401")
        /\ requests[r].check.passed
        /\ OtherProject(requests[r])

-----------------------------------------------------------------------------
(* routers/chart.py: get_charts_for_projects *)

\* some project of the requested list may not be read by the user
SomeUnreadable(q) ==
    \E i \in 1..Len(q.args.project_uuids) :
        q.args.project_uuids[i] \notin grants.read

\* C23: get_charts_for_projects checks access for every requested project
\* before it queries any chart: with one unreadable project the call raises
\* and no chart was queried or returned; for an empty list it returns []
\* without any check or query; a query was made only after all checks passed.
C23_AllOrNothing ==
    \A r \in Slots :
        LET q == requests[r]
        IN  q.handler = "get_charts_for_projects" =>
                /\ q.ops # <<>> =>
                       /\ q.check.passed
                       /\ q.check.projects = q.args.project_uuids
                       /\ ~SomeUnreadable(q)
                /\ (q.pc = "done" /\ SomeUnreadable(q)) =>
                       /\ q.response = <<[status |-> "HTTPException",
                                           body |-> <<>>]>>
                       /\ q.ops = <<>>
                /\ (q.pc = "done" /\ q.args.project_uuids = <<>>) =>
                       /\ q.response = <<[status |-> "200", body |-> <<>>]>>
                       /\ q.ops = <<>>
                       /\ q.check.kind = "none"
                /\ (q.pc = "done" /\ q.ops # <<>>) =>
                       q.response =
                           <<[status |-> "200",
                              body |-> select_charts(Range(q.args.project_uuids))]>>

\* the second of two requested projects is unreadable and the call raised,
\* although the first project holds a chart
C23_Witness ==
    \E r \in Slots :
        LET q == requests[r]
        IN  /\ Finished(q, "get_charts_for_projects", "HTTPException")
            /\ Len(q.args.project_uuids) = 2
            /\ q.args.project_uuids[1] \in grants.read
            /\ q.args.project_uuids[2] \notin grants.read
            /\ select_charts({q.args.project_uuids[1]}) # {}

-----------------------------------------------------------------------------
(* routers/chart.py: the project of the path and the project of the chart *)

\* C26: get_chart returns a chart only if it belongs to the project_uuid whose
\* access was checked, and the data cached for a chart id is computed against
\* the chart's own project, never against another project of a request path.
C26_AsStated ==
    /\ \A r \in Slots :
           LET q == requests[r]
           IN  (Finished(q, "get_chart", "200") /\ q.response[1].body # <<>>) =>
                   q.response[1].body[1].project_uuid = q.args.project_uuid
    /\ \A id \in ChartIds :
           (charts_table[id] # <<>> /\ charts_table[id][1].data # <<>>) =>
               charts_table[id][1].data[1].table[2] =
                   charts_table[id][1].project_uuid

-----------------------------------------------------------------------------
(* database/database.py: connections left open *)

\* C28: after a sequence of method calls that ends with disconnect or
\* __exit__, every connection the object opened has been closed, and cur is
\* not None only if conn is not None.
C28_AsStated ==
    /\ db.method \in {"disconnect", "__exit__"} => db.open = {}
    /\ db.cur # 0 => db.conn # 0

-----------------------------------------------------------------------------
(* database/select.py: slices(project, ids) *)

\* the stored rows of a project
StoredOf(p) == {i \in 1..Len(slices_table) : slices_table[i].project_uuid = p}

\* C21: slices(project, ids) returns [] without any store access for the
\* empty list, all slices of the project for None, and otherwise only stored
\* slices of the project whose id is in ids, each at most once and never one
\* with the id -1; every returned slice has a root group whose join is OMITTED.
C21_Slices ==
    slices_call.pc = "done" =>
        LET c == slices_call
            ret == c.ret
            Stored(s) == \E i \in StoredOf(c.project) :
                             /\ slices_table[i].id = s.id
                             /\ slices_table[i].name = s.slice_name
                             /\ slices_table[i].filter = s.filter_predicates.predicates
        IN  /\ c.ids = <<<<>>>> => ret = <<>> /\ c.queries = <<>>
            /\ c.ids = <<>> =>
                   /\ Len(ret) = Cardinality(StoredOf(c.project))
                   /\ \A i \in StoredOf(c.project) :
                          \E k \in 1..Len(ret) : ret[k].id = slices_table[i].id
            /\ c.ids # <<>> => \A k \in 1..Len(ret) : InSeq(ret[k].id, c.ids[1])
            /\ \A k \in 1..Len(ret) :
                   /\ Stored(ret[k])
                   /\ ret[k].id # -1
                   /\ ret[k].filter_predicates.join = "OMITTED"
                   /\ \A j \in 1..Len(ret) : ret[j].id = ret[k].id => j = k

\* a call with an id listed twice and the id of another project's slice
\* returned the one slice of the project
C21_Witness ==
    /\ slices_call.pc = "done"
    /\ slices_call.project = "p"
    /\ slices_call.ids = <<<<1, 3, 1>>>>
    /\ Len(slices_call.ret) = 1
    /\ slices_call.queries = <<"slices">>

-----------------------------------------------------------------------------
(* database/select.py: projects(user) *)

\* C29: projects(user) returns the owned projects, then the projects shared
\* with the user directly, then the projects shared through the user's
\* organizations, and every project uuid appears at most once in the list.
C29_AsStated ==
    projects_call.pc = "done" =>
        LET ret == projects_call.ret
        IN  /\ \A i, j \in 1..Len(ret) :
                   i < j => ~(ret[i].via = "org" /\ ret[j].via # "org")
                            /\ ~(ret[i].via = "user" /\ ret[j].via = "own")
            /\ \A i, j \in 1..Len(ret) : ret[i].uuid = ret[j].uuid => i = j

-----------------------------------------------------------------------------
(* routers/chart.py: interleaved invocations *)

\* C25: under any interleaving of get_chart_data and update_chart for one
\* chart, a non-empty cache of a chart id holds data computed from the
\* chart's current definition.
C25_AsStated ==
    \A id \in ChartIds :
        (charts_table[id] # <<>> /\ charts_table[id][1].data # <<>>) =>
            charts_table[id][1].data[1].table[1] = charts_table[id][1].parameters

\* C27: under any interleaving of update_chart_config calls for one
\* (project_uuid, chart_id), at most one configuration exists for the pair
\* and every call whose permission check passed wrote it (update when one
\* exists, insert otherwise) without failing.
C27_AsStated ==
    /\ \A key \in DOMAIN chart_configs : chart_configs[key] <= 1
    /\ \A r \in ConcurrentSlots :
           (requests[r].handler = "update_chart_config"
                /\ requests[r].pc = "done" /\ requests[r].check.passed) =>
               requests[r].response[1].status = "200"

====
